---- MODULE Spec2Model ----
(***************************************************************************)
(* A model of lib.md: the Markdown document model (src/src/md/markdown.mjs) *)
(* and its lowering to an HTML tree (src/src/md/renderer.mjs).              *)
(*                                                                         *)
(* Strings are sequences of lexical units (one-character strings, or one   *)
(* HTML lexeme such as "<script>"), so that toLowerCase, encodeURI and the  *)
(* HTML parser are computed rather than assumed.                            *)
(***************************************************************************)
EXTENDS Integers, Sequences, FiniteSets, TLC

VARIABLES
    blocks,       \* MDDocument.blocks
    references,   \* MDDocument.references: sequence of [name, ref]
    calls,        \* history: the calls that changed the document, in order
    container,    \* an Element under construction (constructor, then push)
    toc_pc,       \* position inside TableOfContents.as_list
    headings,     \* as_list: the filtered headings (indices into blocks)
    allow_h1,     \* as_list: const allow_h1
    h_idx,        \* as_list: position of headings.forEach
    level,        \* as_list: let level
    current,      \* as_list: let current (JS array, index k stored at k + 1)
    toc_lists,    \* heap of the List objects as_list creates; 1 is `list`
    toc_entries,  \* heap of the ListEntry objects as_list creates
    options,      \* the options object the caller passes to render_to_html
    out           \* what the last call returned (or that it threw)

docVars == <<blocks, references, calls>>
tocVars == <<toc_pc, headings, allow_h1, h_idx, level, current, toc_lists, toc_entries>>
renderVars == <<options, out>>
vars == <<docVars, tocVars, renderVars, container>>

\* ---------------------------------------------------------------- bounds

MaxTocBlocks == 3

\* ------------------------------------------------------------- JS values

Undefined == -1

Truthy(x) == x # Undefined

\* arr[i] of a JS array stored as a sequence (index i at position i + 1).
JsGet(arr, i) == IF (i + 1) \in DOMAIN arr THEN arr[i + 1] ELSE Undefined

\* arr[i] = v of a JS array: the array grows, holes read as undefined.
JsSet(arr, i, v) ==
    [k \in 1..(IF Len(arr) > i + 1 THEN Len(arr) ELSE i + 1) |->
        IF k = i + 1 THEN v ELSE IF k <= Len(arr) THEN arr[k] ELSE Undefined]

\* arr.splice(start): drops every element from index start on.
JsSplice(arr, start) == SubSeq(arr, 1, start)

RECURSIVE Concat(_)
Concat(ss) == IF ss = <<>> THEN <<>> ELSE Head(ss) \o Concat(Tail(ss))

\* ----------------------------------------------------------------- strings

UpperOf == [a |-> "A", b |-> "B", c |-> "C"]
LowerLetters == DOMAIN UpperOf
UpperLetters == {UpperOf[c] : c \in LowerLetters}

LowerChar(c) ==
    IF c \in UpperLetters THEN CHOOSE l \in LowerLetters : UpperOf[l] = c ELSE c

\* String.prototype.toLowerCase / toLocaleLowerCase
toLowerCase(s) == [i \in 1..Len(s) |-> LowerChar(s[i])]

\* encodeURI: letters, digits and URI punctuation are kept, a space becomes
\* %20 and a non-ASCII character its UTF-8 bytes.
EncodeChar(c) ==
    CASE c = " " -> <<"%", "2", "0">>
      [] c = "é" -> <<"%", "C", "3", "%", "A", "9">>
      [] c = "\n" -> <<"%", "0", "A">>
      [] OTHER -> <<c>>

encodeURI(s) == Concat([i \in 1..Len(s) |-> EncodeChar(s[i])])

RECURSIVE ReplacePct20(_)
\* s.replace(/%20/g, "-")
ReplacePct20(s) ==
    IF s = <<>> THEN <<>>
    ELSE IF Len(s) >= 3 /\ SubSeq(s, 1, 3) = <<"%", "2", "0">>
         THEN <<"-">> \o ReplacePct20(SubSeq(s, 4, Len(s)))
         ELSE <<Head(s)>> \o ReplacePct20(Tail(s))

\* ------------------------------------------------------------ Markdown AST

LINEBREAK_CONTENT == <<" ", " ", "\n">>

Text(content) == [type |-> "text", content |-> content]

LINEBREAK == Text(LINEBREAK_CONTENT)

TextTypes == {"text", "emoji", "inline_code", "inline_link"}

\* node instanceof Text
IsText(node) == node.type \in TextTypes

\* Text.is_linebreak, overridden to false by Emoji, InlineCode, InlineLink
is_linebreak(node) == node.type = "text" /\ node.content = LINEBREAK_CONTENT

purge_linebreaks(nodes) ==
    SelectSeq(nodes, LAMBDA node : ~(IsText(node) /\ is_linebreak(node)))

\* Element.constructor, on an array of nodes
ElementNodes(nodes, allow_linebreaks) ==
    IF allow_linebreaks THEN nodes ELSE purge_linebreaks(nodes)

\* Element.push
ElementPush(el, node) == [el EXCEPT !.nodes = Append(@, node)]

Reference(url, tooltip) == [url |-> url, tooltip |-> tooltip]

\* the value undefined where a string is expected; as a string it reads
\* "undefined"
NoTooltip == <<"undefined">>

NoUrl == <<"undefined">>

\* Reference.has_tooltip
has_tooltip(ref) == ref.tooltip # NoTooltip /\ ref.tooltip # <<>>

\* Link.constructor, for a title given as an array of nodes
Link(url, title, tooltip, reference) ==
    [type |-> "link",
     nodes |-> ElementNodes(title, FALSE),
     ref |-> Reference(url, tooltip),
     ref_name |-> toLowerCase(reference)]

Image(url, alt, tooltip, reference) ==
    [Link(url, alt, tooltip, reference) EXCEPT !.type = "image"]

HeadingLevel == <<"h1", "h2", "h3", "h4", "h5", "h6">>

\* the number of a heading level: the digit of "h3" is 3
ParseLevelOf(lvl) == CHOOSE n \in 1..Len(HeadingLevel) : HeadingLevel[n] = lvl

Heading(nodes, lvl) ==
    [type |-> "heading", nodes |-> ElementNodes(nodes, FALSE), level |-> lvl]

Paragraph(nodes) == [type |-> "paragraph", nodes |-> ElementNodes(nodes, TRUE)]

TableOfContents == [type |-> "table_of_contents", nodes |-> <<>>]

Emoji(id, skin_tone) == [type |-> "emoji", content |-> id, skin_tone |-> skin_tone]

InlineCode(content) == [type |-> "inline_code", content |-> content]

InlineLink(link) == [type |-> "inline_link", content |-> link]

Comment(nodes) == [type |-> "comment", nodes |-> ElementNodes(nodes, TRUE)]

Italic(content) == [type |-> "italic", nodes |-> ElementNodes(content, TRUE)]

Bold(content) == [type |-> "bold", nodes |-> ElementNodes(content, TRUE)]

Underline(content) == [type |-> "underline", nodes |-> ElementNodes(content, TRUE)]

Strikethrough(content) == [type |-> "strikethrough", nodes |-> ElementNodes(content, FALSE)]

Highlight(content) == [type |-> "highlight", nodes |-> ElementNodes(content, FALSE)]

Spoiler(content) == [type |-> "spoiler", nodes |-> ElementNodes(content, FALSE)]

BlockCode(code, language) ==
    [type |-> "block_code", nodes |-> <<>>, code |-> code, language |-> language]

BlockQuote(nodes) == [type |-> "quote", nodes |-> ElementNodes(nodes, TRUE)]

HORIZONTAL_RULE == [type |-> "horizontal_rule"]

\* ListEntry.constructor
ListEntry(nodes, sublists, checked) ==
    [type |-> "list_entry", nodes |-> ElementNodes(nodes, FALSE),
     sublists |-> sublists, checked |-> checked]

\* List.constructor, on an array of ListEntry
List(entries, ordered, ordered_start) ==
    [type |-> "list", nodes |-> ElementNodes(entries, TRUE),
     ordered |-> ordered, ordered_start |-> ordered_start]

InlineHTML(nodes) == [type |-> "inline_html", nodes |-> ElementNodes(nodes, TRUE)]

InlineLatex(raw, display_mode) ==
    [type |-> "inline_latex", nodes |-> <<>>, raw |-> raw, display_mode |-> display_mode]

\* TableAlignments: name, left and right marker
TableAlignments ==
    [NONE |-> [name |-> "none", left |-> "-", right |-> "-"],
     LEFT |-> [name |-> "left", left |-> ":", right |-> "-"],
     CENTER |-> [name |-> "center", left |-> ":", right |-> ":"],
     RIGHT |-> [name |-> "right", left |-> "-", right |-> ":"]]

TableEntry(nodes) == [type |-> "table_entry", nodes |-> ElementNodes(nodes, TRUE)]

TableRow(columns) == [type |-> "table_row", nodes |-> ElementNodes(columns, TRUE)]

\* Table.constructor: a table always has a head row
Table(nodes, alignments) ==
    [type |-> "table",
     nodes |-> IF nodes = <<>> THEN <<TableRow(<<>>)>> ELSE ElementNodes(nodes, TRUE),
     alignments |-> alignments]

\* the alignment of the column before
get_alignment_Mutant(table, column) ==
    IF column \in DOMAIN table.alignments THEN table.alignments[column]
    ELSE TableAlignments.NONE

\* Table.get_alignment
get_alignment(table, column) ==
    IF column + 1 \in DOMAIN table.alignments THEN table.alignments[column + 1]
    ELSE TableAlignments.NONE

\* instanceof Element
IsMdElement(node) == node.type \notin (TextTypes \cup {"horizontal_rule"})

\* is_block()
is_block(node) ==
    \/ node.type \in {"heading", "paragraph", "block_code", "quote", "horizontal_rule",
                      "list", "inline_html", "table", "table_row", "table_entry",
                      "table_of_contents"}
    \/ (node.type = "inline_latex" /\ node.display_mode)

RECURSIVE as_plain_text(_)
\* Element.as_plain_text
as_plain_text(el) ==
    Concat([i \in 1..Len(el.nodes) |->
        IF IsText(el.nodes[i]) THEN el.nodes[i].content
        ELSE as_plain_text(el.nodes[i])])

\* Heading.get_id
get_id(heading) == toLowerCase(ReplacePct20(encodeURI(as_plain_text(heading))))

\* ------------------------------------------------------ Markdown toString

RECURSIVE Join(_, _)
\* parts.join(sep)
Join(parts, sep) ==
    IF parts = <<>> THEN <<>>
    ELSE IF Len(parts) = 1 THEN parts[1]
    ELSE parts[1] \o sep \o Join(Tail(parts), sep)

RECURSIVE Split(_, _)
\* s.split(sep), sep a single unit
Split(s, sep) ==
    IF \A i \in DOMAIN s : s[i] # sep THEN <<s>>
    ELSE LET k == CHOOSE i \in DOMAIN s : s[i] = sep /\ \A j \in 1..(i - 1) : s[j] # sep
         IN <<SubSeq(s, 1, k - 1)>> \o Split(SubSeq(s, k + 1, Len(s)), sep)

Includes(s, c) == \E i \in DOMAIN s : s[i] = c

\* "-".repeat(n)
Repeat(c, n) == [i \in 1..n |-> c]

\* every line prefixed with prefix
PrefixLines(s, prefix) ==
    LET lines == Split(s, "\n")
    IN Join([i \in DOMAIN lines |-> prefix \o lines[i]], <<"\n">>)

\* every line but the first prefixed with two spaces (List.toString)
IndentTail(s) ==
    LET lines == Split(s, "\n")
    IN Join([i \in DOMAIN lines |-> IF i # 1 THEN <<" ", " ">> \o lines[i] ELSE lines[i]],
            <<"\n">>)

\* Reference.toString
ReferenceToString(ref) ==
    ref.url \o (IF has_tooltip(ref) THEN <<" ", "\"">> \o ref.tooltip \o <<"\"">> ELSE <<>>)

\* TableAlignment.to_pretty_string
to_pretty_string(alignment, column_length) ==
    <<alignment.left>>
        \o Repeat("-", (IF column_length < 5 THEN 5 ELSE column_length) - 2)
        \o <<alignment.right>>

HeadingPrefix(lvl) == Repeat("#", ParseLevelOf(lvl)) \o <<" ">>

\* the backtick character (one the module's own string syntax cannot hold)
Backtick == "&#96;"

\* an ordered list numbered from 1 whatever its ordered_start
EntryMarker_Mutant(list, index) ==
    IF list.ordered THEN <<ToString(index + 1), ".", " ">> ELSE <<"-", " ">>

\* List.toString, line 669: what goes before the entry at index (from 0)
EntryMarker(list, index) ==
    IF list.ordered THEN <<ToString(index + list.ordered_start), ".", " ">>
    ELSE <<"-", " ">>

RECURSIVE MdToString(_)
\* toString() of every Markdown node that returns normally
MdToString(n) ==
    LET inner == IF IsText(n) \/ n.type = "horizontal_rule" THEN <<>>
                 ELSE [i \in DOMAIN n.nodes |-> MdToString(n.nodes[i])]
        nodes_as_string == Concat(inner)
    IN CASE n.type = "text" -> n.content
         [] n.type = "inline_link" -> n.content
         [] n.type = "emoji" ->
              IF n.skin_tone # "null"
              THEN <<":">> \o n.content \o <<":", ":", "skin-tone-", n.skin_tone, ":">>
              ELSE <<":">> \o n.content \o <<":">>
         [] n.type = "inline_code" ->
              IF Includes(n.content, Backtick)
              THEN <<Backtick, Backtick, Backtick>> \o n.content \o <<Backtick, Backtick, Backtick>>
              ELSE <<Backtick>> \o n.content \o <<Backtick>>
         [] n.type = "italic" ->
              IF Includes(nodes_as_string, "*")
              THEN <<"_">> \o nodes_as_string \o <<"_">>
              ELSE <<"*">> \o nodes_as_string \o <<"*">>
         [] n.type = "bold" -> <<"*", "*">> \o nodes_as_string \o <<"*", "*">>
         [] n.type = "underline" -> <<"_", "_">> \o nodes_as_string \o <<"_", "_">>
         [] n.type = "strikethrough" -> <<"~", "~">> \o nodes_as_string \o <<"~", "~">>
         [] n.type = "highlight" -> <<"=", "=">> \o nodes_as_string \o <<"=", "=">>
         [] n.type = "spoiler" -> <<"|", "|">> \o nodes_as_string \o <<"|", "|">>
         [] n.type \in {"link", "image"} ->
              (IF n.type = "image" THEN <<"!">> ELSE <<>>) \o
              (IF n.ref_name # <<>>
               THEN IF n.ref_name = nodes_as_string
                    THEN <<"[">> \o nodes_as_string \o <<"]">>
                    ELSE <<"[">> \o nodes_as_string \o <<"]", "[">> \o n.ref_name \o <<"]">>
               ELSE <<"[">> \o nodes_as_string \o <<"]", "(">>
                        \o ReferenceToString(n.ref) \o <<")">>)
         [] n.type = "heading" -> HeadingPrefix(n.level) \o Join(inner, <<" ">>)
         [] n.type = "block_code" ->
              <<Backtick, Backtick, Backtick>>
                \o (IF n.language # "" THEN <<n.language, "\n">> ELSE <<"\n">>)
                \o n.code \o <<"\n", Backtick, Backtick, Backtick>>
         [] n.type = "quote" ->
              PrefixLines(
                Concat([i \in DOMAIN inner |->
                    inner[i] \o (IF i < Len(inner)
                                    /\ ~(IsText(n.nodes[i]) /\ is_linebreak(n.nodes[i]))
                                 THEN <<" ">> ELSE <<>>)]),
                <<">", " ">>)
         [] n.type = "horizontal_rule" -> <<"-", "-", "-">>
         [] n.type = "list" ->
              Join([i \in DOMAIN inner |->
                      IndentTail(EntryMarker(n, i - 1) \o inner[i])],
                   <<"\n">>)
         [] n.type = "list_entry" ->
              (IF n.checked = "true" THEN <<"[x]", " ">>
               ELSE IF n.checked = "false" THEN <<"[ ]", " ">> ELSE <<>>)
              \o Join(inner, <<"\n">>)
              \o (IF Len(n.sublists) > 0
                  THEN <<"\n">> \o Join([i \in DOMAIN n.sublists |->
                                    PrefixLines(MdToString(n.sublists[i]), <<" ", " ">>)],
                                  <<"\n">>)
                  ELSE <<>>)
         [] n.type = "inline_latex" ->
              IF n.display_mode THEN <<"$", "$", "\n">> \o n.raw \o <<"\n", "$", "$">>
              ELSE <<"$">> \o n.raw \o <<"$">>
         [] n.type = "table" ->
              LET head_columns == [i \in DOMAIN n.nodes[1].nodes |->
                                       MdToString(n.nodes[1].nodes[i])]
                  body == Tail(inner)
              IN <<"|", " ">> \o Join(head_columns, <<" ", "|", " ">>) \o <<" ", "|", "\n">>
                  \o <<"|">>
                  \o Join([i \in DOMAIN n.alignments |->
                            to_pretty_string(n.alignments[i],
                                IF i \in DOMAIN head_columns /\ head_columns[i] # <<>>
                                THEN Len(head_columns[i]) + 2 ELSE 5)], <<"|">>)
                  \o <<"|", "\n">> \o Join(body, <<"\n">>)
         [] n.type = "table_row" ->
              <<"|", " ">> \o Join(inner, <<" ", "|", " ">>) \o <<" ", "|">>
         [] n.type = "table_of_contents" -> <<"[", "[", "ToC", "]", "]">>
         [] OTHER -> nodes_as_string

RECURSIVE ToStringThrows(_)
\* whether toString() of the node throws: Heading.toString on a level that is
\* none of h1..h6, at any depth toString descends to
ToStringThrows(n) ==
    IF IsText(n) \/ n.type = "horizontal_rule" THEN FALSE
    ELSE \/ n.type = "heading" /\ \A k \in DOMAIN HeadingLevel : HeadingLevel[k] # n.level
         \/ \E i \in DOMAIN n.nodes : ToStringThrows(n.nodes[i])
         \/ n.type = "list_entry" /\ \E i \in DOMAIN n.sublists : ToStringThrows(n.sublists[i])

\* Element.get_nodes_as_string
get_nodes_as_string(el) == Concat([i \in DOMAIN el.nodes |-> MdToString(el.nodes[i])])

\* ---------------------------------------------------------------- HTML AST

create_element(tag) ==
    [node |-> "element", tag |-> tag, attributes |-> <<>>, children |-> <<>>]

HtmlText(content, mode) == [node |-> "text", content |-> content, mode |-> mode]

HtmlComment(content) == [node |-> "comment", content |-> content]

\* a JavaScript string handed around where an HTML node is expected
JsString(content) == [node |-> "string", content |-> content]

IsElement(n) == n.node = "element"

\* Element.append_child: a string is coerced to Text(NORMAL)
AsChild(n) == IF n.node = "string" THEN HtmlText(n.content, "NORMAL") ELSE n

append_child(el, child) == [el EXCEPT !.children = Append(@, AsChild(child))]

append_children(el, nodes) ==
    [el EXCEPT !.children = @ \o [i \in DOMAIN nodes |-> AsChild(nodes[i])]]

Attr(name, value) == [name |-> name, value |-> value]

HasAttr(el, name) == \E i \in DOMAIN el.attributes : el.attributes[i].name = name

AttrValue(el, name) ==
    el.attributes[CHOOSE i \in DOMAIN el.attributes : el.attributes[i].name = name].value

\* Element.attr(name, value) / with_attr: attribute names are unique
with_attr(el, name, value) ==
    IF HasAttr(el, name)
    THEN [el EXCEPT !.attributes =
            [i \in DOMAIN @ |-> IF @[i].name = name THEN Attr(name, value) ELSE @[i]]]
    ELSE [el EXCEPT !.attributes = Append(@, Attr(name, value))]

\* Element.style(key, value): one entry of the style map
with_style(el, key, value) ==
    with_attr(el, "style",
        (IF HasAttr(el, "style") THEN AttrValue(el, "style") ELSE <<>>)
            \o <<[key |-> key, value |-> value]>>)

with_child(el, child) == append_child(el, child)

\* The lexemes of the HTML fragments the model reads: a start tag with its
\* attributes, an end tag, or a self-closing tag.  Anything else is text.
LexTable ==
    ("<div onclick>" :> [kind |-> "open", tag |-> "div", inner |-> "div onclick",
                         attrs |-> <<Attr("onclick", "x()")>>])
 @@ ("<div class>" :> [kind |-> "open", tag |-> "div", inner |-> "div class",
                       attrs |-> <<Attr("class", "c")>>])
 @@ ("</div>" :> [kind |-> "close", tag |-> "div", inner |-> "/div", attrs |-> <<>>])
 @@ ("<script>" :> [kind |-> "open", tag |-> "script", inner |-> "script", attrs |-> <<>>])
 @@ ("</script>" :> [kind |-> "close", tag |-> "script", inner |-> "/script", attrs |-> <<>>])
 @@ ("<div>" :> [kind |-> "open", tag |-> "div", inner |-> "div", attrs |-> <<>>])
 @@ ("<br />" :> [kind |-> "void", tag |-> "br", inner |-> "br /", attrs |-> <<>>])

IsLexeme(tok) == tok \in DOMAIN LexTable

VoidTags == {"br", "hr", "img", "input", "meta", "link"}

RECURSIVE TextRun(_)
\* the longest prefix of toks that holds no tag
TextRun(toks) ==
    IF toks = <<>> \/ IsLexeme(Head(toks)) THEN <<>>
    ELSE <<Head(toks)>> \o TextRun(Tail(toks))

RECURSIVE ParseUntil(_, _)
\* the nodes of toks up to the end tag of `open` (consumed) or the end of input
ParseUntil(toks, open) ==
    IF toks = <<>> THEN [nodes |-> <<>>, rest |-> <<>>]
    ELSE IF ~IsLexeme(Head(toks))
    THEN LET run == TextRun(toks)
             r == ParseUntil(SubSeq(toks, Len(run) + 1, Len(toks)), open)
         IN [nodes |-> <<HtmlText(run, "NORMAL")>> \o r.nodes, rest |-> r.rest]
    ELSE LET lex == LexTable[Head(toks)] IN
         IF lex.kind = "close" /\ lex.tag = open
         THEN [nodes |-> <<>>, rest |-> Tail(toks)]
         ELSE IF lex.kind = "close"
         THEN LET r == ParseUntil(Tail(toks), open)
              IN [nodes |-> <<HtmlText(<<Head(toks)>>, "NORMAL")>> \o r.nodes, rest |-> r.rest]
         ELSE IF lex.kind = "void"
         THEN LET r == ParseUntil(Tail(toks), open)
              IN [nodes |-> <<[create_element(lex.tag) EXCEPT !.attributes = lex.attrs]>>
                                \o r.nodes,
                  rest |-> r.rest]
         ELSE LET inner == ParseUntil(Tail(toks), lex.tag)
                  r == ParseUntil(inner.rest, open)
              IN [nodes |-> <<[create_element(lex.tag) EXCEPT
                                  !.attributes = lex.attrs, !.children = inner.nodes]>>
                                \o r.nodes,
                  rest |-> r.rest]

\* html.parse_nodes: a fragment to its sequence of nodes; tags are kept as
\* they are, an unmatched end tag becomes text.
parse_nodes(source) == ParseUntil(source, "").nodes

\* escaping of a text in mode NORMAL: a tag no longer reads as a tag
EscapeText(content) ==
    Concat([i \in DOMAIN content |->
        IF IsLexeme(content[i]) THEN <<"&lt;", LexTable[content[i]].inner, "&gt;">>
        ELSE <<content[i]>>])

Unlex(kind, tag, attrs) ==
    CHOOSE tok \in DOMAIN LexTable :
        LexTable[tok].kind = kind /\ LexTable[tok].tag = tag /\ LexTable[tok].attrs = attrs

RECURSIVE Html(_)
\* Node.html(): the serialization of a node
Html(n) ==
    IF n.node = "string" THEN n.content
    ELSE IF n.node = "text"
    THEN (IF n.mode = "RAW" THEN n.content ELSE EscapeText(n.content))
    ELSE IF n.node = "comment" THEN <<"<!--">> \o n.content \o <<"-->">>
    ELSE IF n.tag \in VoidTags THEN <<Unlex("void", n.tag, n.attributes)>>
    ELSE <<Unlex("open", n.tag, n.attributes)>>
            \o Concat([i \in DOMAIN n.children |-> Html(n.children[i])])
            \o <<Unlex("close", n.tag, <<>>)>>

DEFAULT_DISALLOWED_TAGS ==
    {"iframe", "noembed", "noframes", "plaintext", "script", "style", "svg",
     "textarea", "title", "xmp"}

ATTRIBUTES_RULES ==
    [all |-> {"align", "aria-hidden", "class", "id", "lang", "style", "title"},
     img |-> {"width", "height", "src", "alt"},
     a |-> {"href"}]

\* ATTRIBUTES_RULES[tag] || []
TagRules(tag) ==
    IF tag = "img" THEN ATTRIBUTES_RULES.img
    ELSE IF tag = "a" THEN ATTRIBUTES_RULES.a
    ELSE {}

AttributeAllowed(tag, name) == name \in ATTRIBUTES_RULES.all \/ name \in TagRules(tag)

\* sanitize_raw: the attributes of this one node are filtered
sanitize_raw(n) ==
    IF n.node \in {"text", "comment"} THEN n
    ELSE [n EXCEPT !.attributes =
            SelectSeq(@, LAMBDA attribute : AttributeAllowed(n.tag, attribute.name))]

RECURSIVE sanitize_elements(_, _)
\* html.sanitize_elements(nodes, disallowed_tags, sanitize_raw): depth first,
\* an element with a disallowed tag is dropped, every other node goes through
\* the callback.
sanitize_elements(nodes, disallowed_tags) ==
    Concat([i \in DOMAIN nodes |->
        IF ~IsElement(nodes[i]) THEN <<sanitize_raw(nodes[i])>>
        ELSE IF nodes[i].tag \in disallowed_tags THEN <<>>
        ELSE <<sanitize_raw([nodes[i] EXCEPT
                    !.children = sanitize_elements(@, disallowed_tags)])>>])

RECURSIVE purge_empty_children(_)
\* Element.purge_empty_children: empty texts are removed at every depth
purge_empty_children(el) ==
    [el EXCEPT !.children =
        LET kept == SelectSeq(@, LAMBDA n : ~(n.node = "text" /\ n.content = <<>>))
        IN [i \in DOMAIN kept |->
               IF IsElement(kept[i]) THEN purge_empty_children(kept[i]) ELSE kept[i]]]

\* ------------------------------------------------- TableOfContents.as_list

\* parseInt(heading.level[1])
ParseLevel(lvl) == ParseLevelOf(lvl)

NewList(ordered) == [ordered |-> ordered, ordered_start |-> 1, nodes |-> <<>>]

\* an entry whose link keeps the case of the heading's text
TocEntry_Mutant(heading) ==
    [nodes |-> ElementNodes(
        <<Paragraph(<<Link(<<"#">> \o as_plain_text(heading), heading.nodes, NoTooltip, <<>>)>>)>>,
        FALSE),
     sublists |-> <<>>,
     checked |-> "null"]

\* new ListEntry([new Paragraph([new Link(`#${heading.get_id()}`, heading.nodes)])])
TocEntry(heading) ==
    [nodes |-> ElementNodes(
        <<Paragraph(<<Link(<<"#">> \o get_id(heading), heading.nodes, NoTooltip, <<>>)>>)>>,
        FALSE),
     sublists |-> <<>>,
     checked |-> "null"]

IsH1(b) == b.level = HeadingLevel[1]

\* doc.blocks.filter(block => block instanceof Heading), as indices into blocks
DocHeadings(bs) == SelectSeq([i \in 1..Len(bs) |-> i], LAMBDA i : bs[i].type = "heading")

\* H1 headings allowed as soon as there is one
AllowH1_Mutant(bs) == Len(SelectSeq(DocHeadings(bs), LAMBDA i : IsH1(bs[i]))) > 0

\* headings.filter(block => block.level === HeadingLevel.H1).length > 1
AllowH1(bs) == Len(SelectSeq(DocHeadings(bs), LAMBDA i : IsH1(bs[i]))) > 1

\* the headings taken last to first
TocHeadings_Mutant(bs) ==
    LET hs == IF AllowH1(bs) THEN DocHeadings(bs)
              ELSE SelectSeq(DocHeadings(bs), LAMBDA i : ~IsH1(bs[i]))
    IN [k \in DOMAIN hs |-> hs[Len(hs) + 1 - k]]

\* lines 920-924: the headings the table of contents lists
TocHeadings(bs) ==
    IF AllowH1(bs) THEN DocHeadings(bs)
    ELSE SelectSeq(DocHeadings(bs), LAMBDA i : ~IsH1(bs[i]))

\* lines 933-935
HeadingTocLevel(heading, allow) == ParseLevel(heading.level) - (IF allow THEN 0 ELSE 1)

\* the cursor read at the level itself
NoAncestor_Mutant(cur, lvl) == ~Truthy(JsGet(cur, lvl))

\* line 938: !current[level - 1]
NoAncestor(cur, lvl) == ~Truthy(JsGet(cur, lvl - 1))

\* lines 918 and 926: the state of as_list before the loop
TocStart == [current |-> <<0>>, lists |-> <<NewList(TRUE)>>, entries |-> <<>>]

\* the heading is pushed without cutting the cursor first
TocPlace_Mutant(st, heading, lvl) ==
    LET entry == TocEntry(heading)
        e == Len(st.entries) + 1
    IN IF lvl = 1
       THEN [current |-> JsSet(<<0>>, 1, e),
             lists |-> [st.lists EXCEPT ![1].nodes = Append(@, e)],
             entries |-> Append(st.entries, entry)]
       ELSE LET parent == JsGet(st.current, lvl - 1)
                fresh == st.entries[parent].sublists = <<>>
                sublists == IF fresh THEN <<Len(st.lists) + 1>>
                            ELSE st.entries[parent].sublists
                lists == IF fresh THEN Append(st.lists, NewList(TRUE)) ELSE st.lists
                parent_list == sublists[Len(sublists)]
            IN [current |-> JsSet(st.current, lvl, e),
                lists |-> [lists EXCEPT ![parent_list].nodes = Append(@, e)],
                entries |-> Append([st.entries EXCEPT ![parent].sublists = sublists], entry)]

\* lines 942-959: the heading is pushed and becomes the end of the cursor
TocPlace(st, heading, lvl) ==
    LET entry == TocEntry(heading)
        e == Len(st.entries) + 1
    IN IF lvl = 1
       THEN [current |-> JsSet(<<0>>, 1, e),
             lists |-> [st.lists EXCEPT ![1].nodes = Append(@, e)],
             entries |-> Append(st.entries, entry)]
       ELSE LET cur == IF Len(st.current) > lvl + 1
                       THEN JsSplice(st.current, lvl) ELSE st.current
                parent == JsGet(cur, lvl - 1)
                fresh == st.entries[parent].sublists = <<>>
                sublists == IF fresh THEN <<Len(st.lists) + 1>>
                            ELSE st.entries[parent].sublists
                lists == IF fresh THEN Append(st.lists, NewList(TRUE)) ELSE st.lists
                parent_list == sublists[Len(sublists)]
            IN [current |-> JsSet(cur, lvl, e),
                lists |-> [lists EXCEPT ![parent_list].nodes = Append(@, e)],
                entries |-> Append([st.entries EXCEPT ![parent].sublists = sublists], entry)]

RECURSIVE TocLower(_, _)
\* lines 937-940: the while loop
TocLower(cur, lvl) ==
    IF lvl # 1 /\ NoAncestor(cur, lvl) THEN TocLower(cur, lvl - 1) ELSE lvl

RECURSIVE TocFold(_, _, _, _)
\* lines 932-960: headings.forEach
TocFold(bs, hs, allow, st) ==
    IF hs = <<>> THEN st
    ELSE TocFold(bs, Tail(hs), allow,
            TocPlace(st, bs[Head(hs)],
                     TocLower(st.current, HeadingTocLevel(bs[Head(hs)], allow))))

RECURSIVE TocTree(_, _, _)
\* the List object number l of the heap, as a value
TocTree(lists, entries, l) ==
    [type |-> "list",
     ordered |-> lists[l].ordered,
     ordered_start |-> lists[l].ordered_start,
     nodes |-> [k \in DOMAIN lists[l].nodes |->
        LET entry == entries[lists[l].nodes[k]]
        IN [type |-> "list_entry",
            nodes |-> entry.nodes,
            checked |-> entry.checked,
            sublists |-> [j \in DOMAIN entry.sublists |->
                            TocTree(lists, entries, entry.sublists[j])]]]]

\* TableOfContents.as_list(doc)
as_list(doc) ==
    LET st == TocFold(doc.blocks, TocHeadings(doc.blocks), AllowH1(doc.blocks), TocStart)
    IN TocTree(st.lists, st.entries, 1)

\* as_list up to the forEach: lines 918-926
AsListStart ==
    /\ toc_pc = "idle"
    /\ allow_h1' = AllowH1(blocks)
    /\ headings' = TocHeadings(blocks)
    /\ toc_lists' = TocStart.lists
    /\ toc_entries' = TocStart.entries
    /\ current' = TocStart.current
    /\ h_idx' = 1
    /\ level' = 0
    /\ toc_pc' = "loop"
    /\ UNCHANGED <<docVars, renderVars, container>>

\* lines 933-935: the level of the next heading
NextHeading ==
    /\ toc_pc = "loop"
    /\ h_idx <= Len(headings)
    /\ level' = HeadingTocLevel(blocks[headings[h_idx]], allow_h1)
    /\ toc_pc' = "lower"
    /\ UNCHANGED <<docVars, renderVars, container, headings, allow_h1, h_idx, current,
                   toc_lists, toc_entries>>

\* a loop that tests for the ancestor without lowering the level
LowerLevel_Mutant ==
    /\ toc_pc = "lower"
    /\ IF level # 1 /\ NoAncestor(current, level)
       THEN level' = level /\ toc_pc' = "lower"
       ELSE level' = level /\ toc_pc' = "place"
    /\ UNCHANGED <<docVars, renderVars, container, headings, allow_h1, h_idx, current,
                   toc_lists, toc_entries>>

\* lines 937-940: one test of the while loop
LowerLevel ==
    /\ toc_pc = "lower"
    /\ IF level # 1 /\ NoAncestor(current, level)
       THEN level' = level - 1 /\ toc_pc' = "lower"
       ELSE level' = level /\ toc_pc' = "place"
    /\ UNCHANGED <<docVars, renderVars, container, headings, allow_h1, h_idx, current,
                   toc_lists, toc_entries>>

\* lines 942-959
PlaceHeading ==
    /\ toc_pc = "place"
    /\ LET st == TocPlace([current |-> current, lists |-> toc_lists, entries |-> toc_entries],
                          blocks[headings[h_idx]], level)
       IN /\ current' = st.current
          /\ toc_lists' = st.lists
          /\ toc_entries' = st.entries
    /\ h_idx' = h_idx + 1
    /\ toc_pc' = "loop"
    /\ UNCHANGED <<docVars, renderVars, container, headings, allow_h1, level>>

\* line 962
AsListReturn ==
    /\ toc_pc = "loop"
    /\ h_idx > Len(headings)
    /\ toc_pc' = "done"
    /\ UNCHANGED <<docVars, renderVars, container, headings, allow_h1, h_idx, level, current,
                   toc_lists, toc_entries>>

\* as_list is not running
TocIdle ==
    /\ toc_pc = "idle"
    /\ headings = <<>>
    /\ allow_h1 = FALSE
    /\ h_idx = 0
    /\ level = 0
    /\ current = <<>>
    /\ toc_lists = <<>>
    /\ toc_entries = <<>>

\* ---------------------------------------------------------------- renderer

\* A callback option is "null" (absent), "default", "throws", or names what
\* it returns.
DEFAULT_OPTIONS ==
    [block_code |-> [class_name |-> "block_code", highlighter |-> "null"],
     checkbox |-> [enable |-> TRUE, disabled_property |-> TRUE],
     code |-> [process |-> "default"],
     emoji |-> "null",
     highlight |-> [enable |-> TRUE],
     inline_html |-> [enable |-> TRUE, disallowed_tags |-> DEFAULT_DISALLOWED_TAGS],
     image |-> [class_name |-> ""],
     latex |-> [render |-> "null", error_classes |-> <<"error">>],
     strikethrough |-> [class_name |-> "strikethrough"],
     table |-> [process |-> "default"],
     underline |-> [enable |-> TRUE, class_name |-> "underline"],
     spoiler |-> [enable |-> FALSE, class_name |-> "spoiler",
                  image_class_name |-> "spoiler_img",
                  hidden_class_name |-> "spoiler_hidden"],
     parent |-> [kind |-> "null"],
     should_escape |-> FALSE,
     paragraph_as_text |-> FALSE]

\* the message of the Error a throwing callback throws
ErrorOf(callback) == <<callback, " failed">>

\* a call that returned these nodes
Returned(nodes) == [threw |-> FALSE, error |-> <<>>, nodes |-> nodes]

\* a call that threw
Thrown(error) == [threw |-> TRUE, error |-> error]

\* what a latex.render that returns a string returns for the node
LatexString(node) == <<"<div class>">> \o node.raw \o <<"</div>">>

\* what a latex.render that returns an element returns for the node
LatexElement(node) ==
    with_child(with_attr(create_element("span"), "class", <<"katex">>),
               HtmlText(node.raw, "RAW"))

\* what an emoji callback that returns returns for the node
EmojiElement(node) ==
    with_child(with_attr(create_element("span"), "class", <<"emoji">>),
               HtmlText(node.content, "NORMAL"))

\* what a highlighter that returns leaves in the parent it is given
HighlightedNodes(code, language) ==
    <<with_child(with_attr(create_element("span"), "class", <<"token">>),
                 HtmlText(code, "CODE"))>>

\* InlineCode.as_html
InlineCodeAsHtml(node) == with_child(create_element("code"), HtmlText(node.content, "CODE"))

\* InlineLink.as_html
InlineLinkAsHtml(node) ==
    with_child(with_attr(create_element("a"), "href", node.content), JsString(node.content))

\* with_attr("class", name): no attribute for an empty or undefined name
with_class(el, class_name) ==
    IF class_name = "" THEN el ELSE with_attr(el, "class", <<class_name>>)

\* a lookup that finds nothing
FindRef_Mutant(markdown, name) == [found |-> FALSE]

\* markdown.references.find(ref => ref.name === name)
FindRef(markdown, name) ==
    IF \E i \in DOMAIN markdown.references : markdown.references[i].name = name
    THEN LET i == CHOOSE i \in DOMAIN markdown.references :
                    /\ markdown.references[i].name = name
                    /\ \A j \in 1..(i - 1) : markdown.references[j].name # name
         IN [found |-> TRUE, ref |-> markdown.references[i].ref]
    ELSE [found |-> FALSE]

\* the node's own reference, whatever its ref_name
ResolveRef_Mutant(markdown, node) == [found |-> TRUE, ref |-> node.ref]

\* lines 149-154 and 168-173: the reference a Link or Image renders with
ResolveRef(markdown, node) ==
    IF node.ref_name # <<>> THEN FindRef(markdown, node.ref_name)
    ELSE [found |-> TRUE, ref |-> node.ref]

\* lines 155-160 and 174-179: url and tooltip go to the element
WithRef(el, url_attr, resolved) ==
    IF ~resolved.found THEN el
    ELSE LET with_url == with_attr(el, url_attr, resolved.ref.url)
         IN IF has_tooltip(resolved.ref)
            THEN with_attr(with_url, "title", resolved.ref.tooltip)
            ELSE with_url

\* render_latex without its try/catch
render_latex_Mutant(node, opts) ==
    IF opts.latex.render = "null"
    THEN Returned(<<HtmlText(MdToString(node), "NORMAL")>>)
    ELSE IF opts.latex.render = "throws" THEN Thrown(ErrorOf("latex.render"))
    ELSE IF opts.latex.render = "element" THEN Returned(<<LatexElement(node)>>)
    ELSE IF ~opts.should_escape THEN Returned(<<JsString(LatexString(node))>>)
    ELSE LET template == append_children(create_element("div"),
                                         parse_nodes(LatexString(node)))
         IN IF Len(template.children) = 1 THEN Returned(<<template.children[1]>>)
            ELSE Returned(<<template>>)

\* render_latex
render_latex(node, opts) ==
    IF opts.latex.render = "null"
    THEN Returned(<<HtmlText(MdToString(node), "NORMAL")>>)
    ELSE IF opts.latex.render = "throws"
    THEN Returned(<<with_child(
            with_attr(create_element(IF node.display_mode THEN "div" ELSE "span"),
                      "class", opts.latex.error_classes),
            JsString(ErrorOf("latex.render")))>>)
    ELSE IF opts.latex.render = "element" THEN Returned(<<LatexElement(node)>>)
    ELSE IF ~opts.should_escape THEN Returned(<<JsString(LatexString(node))>>)
    ELSE LET template == append_children(create_element("div"),
                                         parse_nodes(LatexString(node)))
         IN IF Len(template.children) = 1 THEN Returned(<<template.children[1]>>)
            ELSE Returned(<<template>>)

\* a call that returned: the parent the blocks were appended to, and the
\* value options.paragraph_as_text is left with
Rendered(parent, pat) == [threw |-> FALSE, error |-> <<>>, parent |-> parent, pat |-> pat]

\* the rest of a function after a call: an exception of the call leaves the
\* function, a result goes on to Rest
Then(r, Rest(_)) == IF r.threw THEN r ELSE Rest(r)

\* lines 204-233 of render_inline: the element of a Spoiler whose nodes were
\* rendered to content
SpoilerElement(node, content, opts) ==
    IF ~opts.spoiler.enable
    THEN LET marked == content # <<>> /\ content[1].node \in {"text", "comment"}
             first == IF marked
                      THEN <<[content[1] EXCEPT !.content = <<"|", "|">> \o @]>>
                           \o Tail(content)
                      ELSE <<JsString(<<"|", "|">>)>> \o content
         IN append_children(create_element("span"), first \o <<JsString(<<"|", "|">>)>>)
    ELSE IF Len(node.nodes) = 1 /\ node.nodes[1].type = "image"
    THEN LET image == with_attr(content[1], "class",
                         (IF HasAttr(content[1], "class")
                          THEN AttrValue(content[1], "class") ELSE <<>>)
                             \o <<opts.spoiler.image_class_name>>)
         IN with_child(
                with_attr(create_element("div"), "class", <<opts.spoiler.class_name>>),
                with_child(
                    with_attr(create_element("div"), "class",
                              <<opts.spoiler.image_class_name,
                                opts.spoiler.hidden_class_name>>),
                    image))
    ELSE with_child(
            with_attr(create_element("span"), "class",
                      <<opts.spoiler.class_name, opts.spoiler.hidden_class_name>>),
            append_children(create_element("span"), content))

RECURSIVE render_inline(_, _, _, _)
RECURSIVE render_node(_, _, _, _)
RECURSIVE render_simple(_, _, _, _, _)
RECURSIVE render_blocks(_, _, _, _)
RECURSIVE render_block(_, _, _, _)
RECURSIVE render_list(_, _, _, _)
RECURSIVE render_entries(_, _, _, _, _)
RECURSIVE render_sublists(_, _, _, _, _)
RECURSIVE render_quote(_, _, _, _)

\* render_simple with linebreaks allowed whatever the caller passes
render_simple_Mutant(markdown, node, opts, el_name, allow_linebreak) ==
    Then(render_inline(markdown, node.nodes, [opts EXCEPT !.should_escape = TRUE], TRUE),
         LAMBDA r : Returned(<<append_children(create_element(el_name), r.nodes)>>))

\* render_simple: the element el_name around the node's inline nodes, which
\* are rendered with should_escape set
render_simple(markdown, node, opts, el_name, allow_linebreak) ==
    Then(render_inline(markdown, node.nodes, [opts EXCEPT !.should_escape = TRUE],
                       allow_linebreak),
         LAMBDA r : Returned(<<append_children(create_element(el_name), r.nodes)>>))

\* the callback of nodes.flatMap in render_inline, lines 123-246: the nodes
\* one Markdown node contributes (none for a null or undefined result)
render_node(markdown, node, opts, allow_linebreak) ==
    CASE node.type = "emoji" ->
            IF opts.emoji = "null" THEN Returned(<<JsString(MdToString(node))>>)
            ELSE IF opts.emoji = "throws" THEN Thrown(ErrorOf("emoji"))
            ELSE Returned(<<EmojiElement(node)>>)
      [] node.type = "text" ->
            IF is_linebreak(node)
            THEN (IF ~allow_linebreak THEN Returned(<<>>)
                  ELSE Returned(<<create_element("br")>>))
            ELSE IF ~opts.should_escape THEN Returned(<<JsString(node.content)>>)
            ELSE IF opts.inline_html.enable
            THEN Returned(sanitize_elements(parse_nodes(node.content),
                                            opts.inline_html.disallowed_tags))
            ELSE Returned(<<HtmlText(node.content, "NORMAL")>>)
      [] node.type = "inline_code" ->
            IF opts.code.process = "throws" THEN Thrown(ErrorOf("code.process"))
            ELSE Returned(<<InlineCodeAsHtml(node)>>)
      [] node.type = "image" ->
            Returned(<<with_class(
                WithRef(with_attr(create_element("img"), "alt", get_nodes_as_string(node)),
                        "src", ResolveRef(markdown, node)),
                opts.image.class_name)>>)
      [] node.type = "link" ->
            Then(render_inline(markdown, node.nodes, opts, FALSE),
                 LAMBDA r : Returned(<<append_children(
                        WithRef(create_element("a"), "href", ResolveRef(markdown, node)),
                        r.nodes)>>))
      [] node.type \in {"bold", "italic", "strikethrough", "underline", "highlight"} ->
            IF node.type = "highlight" /\ ~opts.highlight.enable
            THEN Returned(<<HtmlText(MdToString(node), "NORMAL")>>)
            ELSE Then(render_simple(markdown, node, opts,
                        (CASE node.type = "bold" -> "b"
                           [] node.type = "italic" -> "em"
                           [] node.type = "highlight" -> "mark"
                           [] node.type = "underline" /\ ~opts.underline.enable -> "b"
                           [] OTHER -> "span"),
                        allow_linebreak),
                      LAMBDA r :
                        IF node.type = "strikethrough"
                        THEN Returned(<<with_class(r.nodes[1],
                                                   opts.strikethrough.class_name)>>)
                        ELSE IF node.type = "underline" /\ opts.underline.enable
                        THEN Returned(<<with_class(r.nodes[1], opts.underline.class_name)>>)
                        ELSE r)
      [] node.type = "spoiler" ->
            Then(render_inline(markdown, node.nodes, opts, FALSE),
                 LAMBDA r : Returned(<<SpoilerElement(node, r.nodes, opts)>>))
      [] node.type = "inline_latex" ->
            Then(render_latex(node, opts),
                 LAMBDA r : IF ~opts.should_escape /\ r.nodes[1].node = "text"
                            THEN Returned(<<JsString(r.nodes[1].content)>>)
                            ELSE r)
      [] node.type = "inline_link" -> Returned(<<InlineLinkAsHtml(node)>>)
      [] node.type = "comment" -> Returned(<<HtmlComment(MdToString(node))>>)
      [] node.type = "horizontal_rule" -> Returned(<<create_element("hr")>>)
      [] OTHER -> Returned(<<>>)

\* render_inline: nodes.flatMap(...); the first callback that throws ends it
render_inline(markdown, nodes, opts, allow_linebreak) ==
    IF nodes = <<>> THEN Returned(<<>>)
    ELSE Then(render_node(markdown, Head(nodes), opts, allow_linebreak),
              LAMBDA first :
                Then(render_inline(markdown, Tail(nodes), opts, allow_linebreak),
                     LAMBDA rest : Returned(first.nodes \o rest.nodes)))

\* TableAlignment.style_table_data
style_table_data(alignment, td) ==
    IF alignment.name = "none" THEN td ELSE with_style(td, "text-align", alignment.name)

RECURSIVE render_cells(_, _, _, _, _, _, _)
\* row.nodes.forEach of render_table_row, from column index on
render_cells(markdown, table, cells, index, head, opts, tr) ==
    IF cells = <<>> THEN Returned(<<tr>>)
    ELSE Then(render_inline(markdown, Head(cells).nodes, opts, FALSE),
              LAMBDA r :
                render_cells(markdown, table, Tail(cells), index + 1, head, opts,
                    append_child(tr,
                        append_children(
                            style_table_data(get_alignment(table, index),
                                             create_element(IF head THEN "th" ELSE "td")),
                            r.nodes))))

\* render_table_row; row.table is passed as table
render_table_row(markdown, table, row, head, opts) ==
    render_cells(markdown, table, row.nodes, 0, head, opts, create_element("tr"))

RECURSIVE render_rows(_, _, _, _, _)
\* lines 353-357: the rows after the head go to tbody
render_rows(markdown, table, rows, opts, tbody) ==
    IF rows = <<>> THEN Returned(<<tbody>>)
    ELSE Then(render_table_row(markdown, table, Head(rows), FALSE, opts),
              LAMBDA r :
                render_rows(markdown, table, Tail(rows), opts, append_child(tbody, r.nodes[1])))

\* lines 302-308: the children of a BlockQuote
render_quote(markdown, children, quote, opts) ==
    IF children = <<>> THEN Rendered(quote, opts.paragraph_as_text)
    ELSE IF is_block(Head(children))
    THEN Then(render_blocks(markdown, <<Head(children)>>, quote, opts),
              LAMBDA r : render_quote(markdown, Tail(children), r.parent,
                                      [opts EXCEPT !.paragraph_as_text = r.pat]))
    ELSE Then(render_inline(markdown, <<Head(children)>>, opts, TRUE),
              LAMBDA r : render_quote(markdown, Tail(children),
                                      append_children(quote, r.nodes), opts))

\* a BlockCode handed to the highlighter whether or not it has a language
BlockCodeElement_Mutant(block, opts) ==
    LET language_class == IF block.language # "" THEN "language-" \o block.language ELSE ""
        code == IF opts.block_code.highlighter # "null"
                THEN [create_element("code") EXCEPT
                        !.children = HighlightedNodes(block.code, block.language)]
                ELSE append_child(create_element("code"), HtmlText(block.code, "CODE"))
        pre == with_child(with_class(create_element("pre"), language_class),
                          with_class(code, language_class))
    IN IF opts.block_code.class_name # ""
       THEN with_child(with_class(create_element("div"), opts.block_code.class_name), pre)
       ELSE pre

\* lines 270-297: the element of a BlockCode, its code highlighted or not
BlockCodeElement(block, opts) ==
    LET has_language == block.language # ""
        language_class == IF has_language THEN "language-" \o block.language ELSE ""
        code == IF has_language /\ opts.block_code.highlighter # "null"
                THEN [create_element("code") EXCEPT
                        !.children = HighlightedNodes(block.code, block.language)]
                ELSE append_child(create_element("code"), HtmlText(block.code, "CODE"))
        pre == with_child(with_class(create_element("pre"), language_class),
                          with_class(code, language_class))
    IN IF opts.block_code.class_name # ""
       THEN with_child(with_class(create_element("div"), opts.block_code.class_name), pre)
       ELSE pre

\* lines 313-322: the nodes an InlineHTML block appends, from what its inline
\* nodes rendered to
InlineHtmlNodes(rendered) ==
    LET parsed == parse_nodes(Concat([i \in DOMAIN rendered |-> Html(rendered[i])]))
    IN [i \in DOMAIN parsed |-> sanitize_raw(parsed[i])]

\* the callback of blocks.forEach in render_blocks, lines 252-365
render_block(markdown, block, parent, opts) ==
    CASE block.type = "heading" ->
            Then(render_inline(markdown, block.nodes, opts, FALSE),
                 LAMBDA r : Rendered(
                    append_child(parent,
                        append_children(
                            with_attr(create_element(block.level), "id", get_id(block)),
                            r.nodes)),
                    opts.paragraph_as_text))
      [] block.type = "paragraph" ->
            Then(render_inline(markdown, block.nodes, opts, TRUE),
                 LAMBDA r :
                    IF opts.paragraph_as_text
                    THEN Rendered(append_children(parent, r.nodes), opts.paragraph_as_text)
                    ELSE Rendered(append_child(parent,
                                    append_children(create_element("p"), r.nodes)),
                                  opts.paragraph_as_text))
      [] block.type = "block_code" ->
            IF block.language # "" /\ opts.block_code.highlighter = "throws"
            THEN Thrown(ErrorOf("block_code.highlighter"))
            ELSE Rendered(append_child(parent, BlockCodeElement(block, opts)),
                          opts.paragraph_as_text)
      [] block.type = "quote" ->
            Then(render_quote(markdown, block.nodes, create_element("blockquote"), opts),
                 LAMBDA r : Rendered(append_child(parent, r.parent), r.pat))
      [] block.type = "inline_html" ->
            IF opts.inline_html.enable
            THEN Then(render_inline(markdown, block.nodes,
                                    [opts EXCEPT !.should_escape = FALSE], TRUE),
                      LAMBDA r : Rendered(append_children(parent, InlineHtmlNodes(r.nodes)),
                                          opts.paragraph_as_text))
            ELSE Then(render_inline(markdown, <<Text(MdToString(block))>>, opts, TRUE),
                      LAMBDA r : Rendered(
                            append_child(parent,
                                append_children(create_element("p"), r.nodes)),
                            opts.paragraph_as_text))
      [] block.type = "inline_latex" ->
            Then(render_latex(block, opts),
                 LAMBDA r :
                    IF r.nodes[1].node = "text" /\ ~opts.paragraph_as_text
                    THEN Rendered(append_child(parent,
                                    append_child(create_element("p"), r.nodes[1])),
                                  opts.paragraph_as_text)
                    ELSE Rendered(append_child(parent, r.nodes[1]), opts.paragraph_as_text))
      [] block.type \in {"list", "table_of_contents"} ->
            Then(render_list(markdown,
                             IF block.type = "list" THEN block ELSE as_list(markdown),
                             opts, 0),
                 LAMBDA r : Rendered(append_child(parent, r.parent), r.pat))
      [] block.type = "table" ->
            Then(render_table_row(markdown, block, block.nodes[1], TRUE, opts),
                 LAMBDA head :
                   Then(render_rows(markdown, block, Tail(block.nodes), opts,
                                    create_element("tbody")),
                        LAMBDA body :
                          IF opts.table.process = "throws"
                          THEN Thrown(ErrorOf("table.process"))
                          ELSE Rendered(append_child(parent,
                                with_child(
                                    with_child(
                                        with_attr(create_element("table"), "role", "table"),
                                        with_child(create_element("thead"), head.nodes[1])),
                                    body.nodes[1])),
                                opts.paragraph_as_text)))
      [] block.type = "horizontal_rule" ->
            Rendered(append_child(parent, create_element("hr")), opts.paragraph_as_text)
      [] block.type = "comment" ->
            Rendered(append_child(parent, HtmlComment(MdToString(block))),
                     opts.paragraph_as_text)
      [] OTHER -> Rendered(parent, opts.paragraph_as_text)

\* render_blocks: blocks.forEach(...); options.paragraph_as_text is the one
\* field of options a block may leave changed for the next
render_blocks(markdown, bs, parent, opts) ==
    IF bs = <<>> THEN Rendered(parent, opts.paragraph_as_text)
    ELSE Then(render_block(markdown, Head(bs), parent, opts),
              LAMBDA r : render_blocks(markdown, Tail(bs), r.parent,
                                       [opts EXCEPT !.paragraph_as_text = r.pat]))

\* a checkbox that is always disabled
EntryItem_Mutant(entry, opts) ==
    IF opts.checkbox.enable /\ entry.checked \in {"true", "false"}
    THEN LET box == with_attr(with_attr(create_element("input"), "type", "checkbox"),
                        "style", <<[key |-> "list-style-type", value |-> "none"],
                                   [key |-> "margin", value |-> "0 0.2em 0 -1.3em"]>>)
             checked == IF entry.checked = "true" THEN with_attr(box, "checked", "") ELSE box
         IN append_child(with_style(create_element("li"), "list-style-type", "none"),
                         with_attr(checked, "disabled", ""))
    ELSE create_element("li")

\* lines 380-396: the li of an entry, with its checkbox
EntryItem(entry, opts) ==
    IF opts.checkbox.enable /\ entry.checked \in {"true", "false"}
    THEN LET box == with_attr(with_attr(create_element("input"), "type", "checkbox"),
                        "style", <<[key |-> "list-style-type", value |-> "none"],
                                   [key |-> "margin", value |-> "0 0.2em 0 -1.3em"]>>)
             checked == IF entry.checked = "true" THEN with_attr(box, "checked", "") ELSE box
             disabled == IF opts.checkbox.disabled_property
                         THEN with_attr(checked, "disabled", "") ELSE checked
         IN append_child(with_style(create_element("li"), "list-style-type", "none"),
                         disabled)
    ELSE create_element("li")

\* lines 404-405: the sublists of an entry are rendered, then appended
render_sublists(markdown, sublists, li, opts, lvl) ==
    IF sublists = <<>> THEN Rendered(li, opts.paragraph_as_text)
    ELSE Then(render_list(markdown, Head(sublists), opts, lvl + 1),
              LAMBDA r : render_sublists(markdown, Tail(sublists),
                                         append_child(li, r.parent),
                                         [opts EXCEPT !.paragraph_as_text = r.pat], lvl))

\* list.nodes.forEach of render_list, lines 379-408: the blocks of the entry
\* with paragraph_as_text set, its sublists with paragraph_as_text cleared
render_entries(markdown, entries, html_list, opts, lvl) ==
    IF entries = <<>> THEN Rendered(html_list, opts.paragraph_as_text)
    ELSE Then(render_blocks(markdown, Head(entries).nodes, EntryItem(Head(entries), opts),
                            [opts EXCEPT !.paragraph_as_text = TRUE]),
              LAMBDA body :
                Then(render_sublists(markdown, Head(entries).sublists, body.parent,
                                     [opts EXCEPT !.paragraph_as_text = FALSE], lvl),
                     LAMBDA subs :
                        render_entries(markdown, Tail(entries),
                                       append_child(html_list, subs.parent),
                                       [opts EXCEPT !.paragraph_as_text = subs.pat], lvl)))

\* render_list
render_list(markdown, list, opts, lvl) ==
    render_entries(markdown, list.nodes,
        (IF list.ordered /\ list.ordered_start # 1
         THEN with_attr(create_element("ol"), "start", list.ordered_start)
         ELSE create_element(IF list.ordered THEN "ol" ELSE "ul")),
        opts, IF lvl > 3 THEN 3 ELSE lvl)

\* what render_to_html returns, or that it threw
RenderResult(r) ==
    IF r.threw THEN [op |-> "render", threw |-> TRUE, error |-> r.error]
    ELSE [op |-> "render", threw |-> FALSE, error |-> <<>>,
          html |-> purge_empty_children(r.parent)]

\* any parent that is supplied taken for an element
RenderParent_Mutant(given) ==
    IF given.parent.kind = "null" THEN create_element("div")
    ELSE create_element("section")

\* lines 454-459 of render_to_html: the element the blocks are rendered into
RenderParent(given) ==
    IF given.parent.kind = "element" THEN given.parent.element
    ELSE create_element("div")

\* render_to_html
render_to_html(markdown, given) ==
    RenderResult(render_blocks(markdown, markdown.blocks, RenderParent(given),
                               [given EXCEPT !.should_escape = TRUE]))

Doc == [blocks |-> blocks, references |-> references]

\* a render that registers a reference in the document it renders
Render_Mutant ==
    /\ out' = render_to_html(Doc, options)
    /\ references' = Append(references,
                            [name |-> <<"rendered">>, ref |-> Reference(NoUrl, NoTooltip)])
    /\ UNCHANGED <<blocks, calls, tocVars, options, container>>

\* a call of render_to_html(doc, options)
Render ==
    /\ out' = render_to_html(Doc, options)
    /\ UNCHANGED <<docVars, tocVars, options, container>>

\* render_list(markdown, block.as_list(markdown), options), line 362, on the
\* list as_list has just built
RenderToc ==
    /\ toc_pc = "done"
    /\ out' = [op |-> "render_list",
               html |-> render_list(Doc, TocTree(toc_lists, toc_entries, 1),
                                    [options EXCEPT !.should_escape = TRUE], 0).parent]
    /\ UNCHANGED <<docVars, tocVars, options, container>>

NoOutput == [op |-> "none"]

\* no Element under construction
NoElement == [type |-> "none"]

\* the sequences over S of length up to n
SeqsUpTo(S, n) == UNION {[1..k -> S] : k \in 0..n}

\* -------------------------------------------------------------- MDDocument

\* what get_references returns: undefined, one {name, ref} object, or an array
JsUndefined == [kind |-> "undefined"]

JsObject(value) == [kind |-> "object", value |-> value]

JsArray(value) == [kind |-> "array", value |-> value]

\* array.concat(x): the elements of an array x, or x itself as one element
JsConcat(array, x) ==
    IF x.kind = "array" THEN array \o x.value ELSE Append(array, x)

RECURSIVE get_references(_)
\* get_references; an array holds JsObject values
get_references(el) ==
    IF el.type \in {"link", "image"}
    THEN (IF el.ref_name # <<>> THEN JsObject([name |-> el.ref_name, ref |-> el.ref])
          ELSE JsUndefined)
    ELSE IF IsMdElement(el)
    THEN LET found == [i \in DOMAIN el.nodes |-> get_references(el.nodes[i])]
             defined == SelectSeq(found, LAMBDA r : r.kind # "undefined")
         IN JsArray(Concat([i \in DOMAIN defined |->
                IF defined[i].kind = "array" THEN defined[i].value ELSE <<defined[i]>>]))
    ELSE JsUndefined

RECURSIVE CollectReferences(_, _)
\* this.blocks.forEach(block => references = references.concat(get_references(block)))
CollectReferences(refs, bs) ==
    IF bs = <<>> THEN refs
    ELSE CollectReferences(JsConcat(refs, get_references(Head(bs))), Tail(bs))

\* arr.filter((v, i, arr) => arr.indexOf(v) === i)
Unique(arr) == SelectSeq([i \in DOMAIN arr |-> [v |-> arr[i], i |-> i]],
                         LAMBDA x : \A j \in 1..(x.i - 1) : arr[j] # x.v)

\* MDDocument.toString
MDDocumentToString(doc) ==
    LET stored == [i \in DOMAIN doc.references |-> JsObject(doc.references[i])]
        refs == CollectReferences(stored, doc.blocks)
        body == Join([i \in DOMAIN doc.blocks |-> MdToString(doc.blocks[i]) \o <<"\n">>],
                     <<"\n">>)
        with_url == SelectSeq(refs, LAMBDA r : r.value.ref.url # NoUrl)
        lines == [i \in DOMAIN with_url |->
                    <<"[">> \o with_url[i].value.name \o <<"]", ":", " ">>
                        \o ReferenceToString(with_url[i].value.ref)]
        unique == Unique(lines)
    IN IF \E i \in DOMAIN doc.blocks : ToStringThrows(doc.blocks[i])
       THEN [op |-> "toString", threw |-> TRUE, error |-> "Error"]
       ELSE IF \E i \in DOMAIN refs : refs[i].kind = "undefined"
       THEN [op |-> "toString", threw |-> TRUE, error |-> "TypeError"]
       ELSE [op |-> "toString", threw |-> FALSE,
             value |-> body \o (IF refs # <<>>
                                THEN <<"\n">> \o Join([i \in DOMAIN unique |-> unique[i].v],
                                                      <<"\n">>) \o <<"\n">>
                                ELSE <<>>)]

\* has_ref comparing the name as given
has_ref_Mutant(refs, name) ==
    IF \E i \in DOMAIN refs : refs[i].name = name
    THEN JsObject(refs[CHOOSE i \in DOMAIN refs : refs[i].name = name])
    ELSE JsUndefined

\* MDDocument.has_ref: the entry found, or undefined
has_ref(refs, name) ==
    LET lower == toLowerCase(name)
    IN IF \E i \in DOMAIN refs : refs[i].name = lower
       THEN JsObject(refs[CHOOSE i \in DOMAIN refs :
                            /\ refs[i].name = lower
                            /\ \A j \in 1..(i - 1) : refs[j].name # lower])
       ELSE JsUndefined

\* MDDocument.ref: the references after the call
ref(refs, name, reference) ==
    IF has_ref(refs, name).kind = "undefined"
    THEN Append(refs, [name |-> toLowerCase(name), ref |-> reference])
    ELSE refs

\* MDDocument.push: the block stored
PushedBlock(block) == IF IsText(block) THEN Paragraph(<<block>>) ELSE block

\* ------------------------------------------------------ inputs: MDDocument

MaxCalls == 3

RefNames == {<<"a">>, <<"A">>, <<"B">>}

RefValues == {Reference(<<"u1">>, NoTooltip), Reference(<<"u2">>, <<"tip">>)}

Title == <<Text(<<"t">>)>>

PushInputs ==
    {Paragraph(<<Link(NoUrl, Title, NoTooltip, <<"A">>)>>),
     Paragraph(<<Image(NoUrl, Title, <<"own">>, <<"b">>)>>),
     Paragraph(<<Link(<<"u0">>, Title, <<"tip0">>, <<>>)>>),
     HORIZONTAL_RULE,
     Text(<<"x">>)}

\* doc.push(block)
Push ==
    /\ Len(calls) < MaxCalls
    /\ \E block \in PushInputs :
          /\ blocks' = Append(blocks, PushedBlock(block))
          /\ calls' = Append(calls, [op |-> "push", block |-> block])
    /\ out' = [op |-> "push"]
    /\ UNCHANGED <<references, tocVars, options, container>>

\* doc.ref(name, reference)
Ref ==
    /\ Len(calls) < MaxCalls
    /\ \E name \in RefNames, reference \in RefValues :
          /\ references' = ref(references, name, reference)
          /\ calls' = Append(calls, [op |-> "ref", name |-> name, ref |-> reference])
    /\ out' = [op |-> "ref"]
    /\ UNCHANGED <<blocks, tocVars, options, container>>

\* doc.has_ref(name)
HasRef ==
    /\ \E name \in RefNames :
          out' = [op |-> "has_ref", name |-> name, result |-> has_ref(references, name)]
    /\ UNCHANGED <<docVars, tocVars, options, container>>

\* doc.clear()
Clear ==
    /\ Len(calls) < MaxCalls
    /\ blocks' = <<>>
    /\ references' = <<>>
    /\ calls' = Append(calls, [op |-> "clear"])
    /\ out' = [op |-> "clear"]
    /\ UNCHANGED <<tocVars, options, container>>

\* doc.toString()
DocToString ==
    /\ out' = MDDocumentToString(Doc)
    /\ UNCHANGED <<docVars, tocVars, options, container>>

Init ==
    /\ blocks = <<>>
    /\ references = <<>>
    /\ calls = <<>>
    /\ container = NoElement
    /\ options = DEFAULT_OPTIONS
    /\ out = NoOutput
    /\ TocIdle

Next == Push \/ Ref \/ HasRef \/ Clear \/ DocToString \/ Render

Spec == Init /\ [][Next]_vars

\* --------------------------------------------------------- inputs: Element

MaxCtorNodes == 2

MaxElemNodes == 3

ElemNodes == {Text(<<"x">>), LINEBREAK, Bold(<<Text(<<"y">>)>>)}

\* the containers whose constructor passes allow_linebreaks = false
NoLinebreakTypes == {"strikethrough", "highlight", "spoiler", "link", "heading"}

\* new Strikethrough(nodes), new Highlight(nodes), ...
Construct(type, nodes) ==
    CASE type = "strikethrough" -> Strikethrough(nodes)
      [] type = "highlight" -> Highlight(nodes)
      [] type = "spoiler" -> Spoiler(nodes)
      [] type = "link" -> Link(<<"u0">>, nodes, NoTooltip, <<>>)
      [] type = "heading" -> Heading(nodes, HeadingLevel[2])
      [] type = "bold" -> Bold(nodes)
      [] OTHER -> Paragraph(nodes)

\* container.push(node)
ContainerPush ==
    /\ Len(container.nodes) < MaxElemNodes
    /\ \E node \in ElemNodes : container' = ElementPush(container, node)
    /\ out' = [op |-> "push"]
    /\ UNCHANGED <<docVars, tocVars, options>>

InitElem ==
    /\ \E type \in NoLinebreakTypes \cup {"bold", "paragraph"},
          nodes \in SeqsUpTo(ElemNodes, MaxCtorNodes) :
          container = Construct(type, nodes)
    /\ blocks = <<>>
    /\ references = <<>>
    /\ calls = <<>>
    /\ options = DEFAULT_OPTIONS
    /\ out = NoOutput
    /\ TocIdle

NextElem == ContainerPush

SpecElem == InitElem /\ [][NextElem]_vars

\* ------------------------------------------------------ inputs: InlineHTML

MaxHtmlLen == 4

\* the units an inline HTML source is made of: the tags of LexTable and a text
HtmlUnits == DOMAIN LexTable \cup {"hi"}

InitHtml ==
    /\ \E source \in SeqsUpTo(HtmlUnits, MaxHtmlLen) :
          blocks = <<InlineHTML(<<Text(source)>>)>>
    /\ \E enable \in BOOLEAN :
          options = [DEFAULT_OPTIONS EXCEPT !.inline_html.enable = enable]
    /\ references = <<>>
    /\ calls = <<>>
    /\ container = NoElement
    /\ out = NoOutput
    /\ TocIdle

NextHtml == Render

SpecHtml == InitHtml /\ [][NextHtml]_vars

\* ------------------------------------------------------- inputs: callbacks

MaxCallbackBlocks == 2

CallbackBlocks ==
    {InlineLatex(<<"x">>, TRUE),
     Paragraph(<<InlineLatex(<<"x">>, FALSE)>>),
     Paragraph(<<Emoji(<<"smile">>, "null")>>),
     Paragraph(<<InlineCode(<<"c">>)>>),
     BlockCode(<<"c">>, "js"),
     Table(<<TableRow(<<TableEntry(<<Text(<<"h">>)>>)>>)>>, <<TableAlignments.NONE>>),
     Paragraph(<<Text(<<"x">>)>>)}

CallbackOptions ==
    {[DEFAULT_OPTIONS EXCEPT !.latex.render = latex,
                             !.emoji = emoji,
                             !.block_code.highlighter = highlighter,
                             !.code.process = code,
                             !.table.process = table] :
        latex \in {"null", "string", "element", "throws"},
        emoji \in {"null", "element", "throws"},
        highlighter \in {"null", "fills", "throws"},
        code \in {"default", "throws"},
        table \in {"default", "throws"}}

InitCallbacks ==
    /\ blocks \in SeqsUpTo(CallbackBlocks, MaxCallbackBlocks)
    /\ options \in CallbackOptions
    /\ references = <<>>
    /\ calls = <<>>
    /\ container = NoElement
    /\ out = NoOutput
    /\ TocIdle

NextCallbacks == Render

SpecCallbacks == InitCallbacks /\ [][NextCallbacks]_vars

\* ------------------------------------------------------------ inputs: ToC

HeadingTexts == {<<"A">>, <<"B">>}

TocBlocks ==
    {Heading(<<Text(t)>>, HeadingLevel[n]) : t \in HeadingTexts, n \in 1..Len(HeadingLevel)}
        \cup {TableOfContents}

InitToc ==
    /\ blocks \in SeqsUpTo(TocBlocks, MaxTocBlocks)
    /\ references = <<>>
    /\ calls = <<>>
    /\ container = NoElement
    /\ options = DEFAULT_OPTIONS
    /\ out = NoOutput
    /\ TocIdle

NextToc ==
    AsListStart \/ NextHeading \/ LowerLevel \/ PlaceHeading \/ AsListReturn \/ RenderToc

SpecToc == InitToc /\ [][NextToc]_vars

\* ------------------------------------------- reading the list as_list built

Min(a, b) == IF a < b THEN a ELSE b

\* the List object that holds entry e
TocListOf(e) ==
    CHOOSE l \in DOMAIN toc_lists : \E k \in DOMAIN toc_lists[l].nodes : toc_lists[l].nodes[k] = e

\* the ListEntry whose sublists hold list l; 0 for the list as_list returns
TocOwner(l) ==
    IF l = 1 THEN 0
    ELSE CHOOSE p \in DOMAIN toc_entries :
            \E k \in DOMAIN toc_entries[p].sublists : toc_entries[p].sublists[k] = l

TocParent(e) == TocOwner(TocListOf(e))

RECURSIVE TocDepth(_)
TocDepth(e) == IF TocParent(e) = 0 THEN 1 ELSE 1 + TocDepth(TocParent(e))

\* the target of the link of entry e
TocHref(e) == toc_entries[e].nodes[1].nodes[1].ref.url

\* the document's H1 headings, counted on the document itself
DocH1s == {i \in DOMAIN blocks : blocks[i].type = "heading" /\ blocks[i].level = "h1"}

DocHeadingSet == {i \in DOMAIN blocks : blocks[i].type = "heading"}

SeveralH1 == Cardinality(DocH1s) > 1

\* the level the table of contents gives heading i of the document
TocLevel(i) == ParseLevel(blocks[i].level) - (IF SeveralH1 THEN 0 ELSE 1)

TocDone == toc_pc = "done"

\* --------------------------------------------------------------- claims

\* C4: H1 headings are entries of the table of contents, at its top level,
\* exactly when the document has more than one H1; otherwise they are left
\* out and every other heading counts one level less (an H2 is a top-level
\* entry, an H3 that follows an entry is nested).
C4_H1OnlyWhenSeveral ==
    TocDone =>
        /\ {headings[e] : e \in DOMAIN headings} =
              (IF SeveralH1 THEN DocHeadingSet ELSE DocHeadingSet \ DocH1s)
        /\ Len(toc_entries) = Len(headings)
        /\ \A e \in DOMAIN toc_entries :
              /\ TocDepth(e) <= TocLevel(headings[e])
              /\ TocLevel(headings[e]) = 1 => TocDepth(e) = 1
              /\ (TocLevel(headings[e]) > 1 /\ e > 1) => TocDepth(e) > 1

C4_Witness ==
    /\ TocDone
    /\ \E e \in DOMAIN toc_entries : headings[e] \in DocH1s /\ TocDepth(e) = 1
    /\ \E e \in DOMAIN toc_entries : TocDepth(e) = 2

C4_WitnessDemoted ==
    /\ TocDone
    /\ Cardinality(DocH1s) = 1
    /\ \E e \in DOMAIN toc_entries : blocks[headings[e]].level = "h2" /\ TocDepth(e) = 1
    /\ \E e \in DOMAIN toc_entries : blocks[headings[e]].level = "h3" /\ TocDepth(e) = 2

\* the document of the claim: # A, ## B, [[ToC]]
C5_Doc ==
    blocks = <<Heading(<<Text(<<"A">>)>>, "h1"), Heading(<<Text(<<"B">>)>>, "h2"),
               TableOfContents>>

\* the li elements of a rendered list
HtmlEntries(html_list) == SelectSeq(html_list.children, LAMBDA n : IsElement(n) /\ n.tag = "li")

\* the lists rendered inside a li
HtmlSublists(li) == SelectSeq(li.children, LAMBDA n : IsElement(n) /\ n.tag \in {"ol", "ul"})

\* the href values of the links directly inside a li
HtmlHrefs(li) ==
    {AttrValue(li.children[i], "href") : i \in
        {j \in DOMAIN li.children : /\ IsElement(li.children[j])
                                    /\ li.children[j].tag = "a"
                                    /\ HasAttr(li.children[j], "href")}}

C5_Rendered == C5_Doc /\ out.op = "render_list"

\* C5 as stated: for # A, ## B, [[ToC]] the rendered table of contents is an
\* ol with a single top-level entry linking to #a, whose sublist holds the
\* entry linking to #b.
C5_SingleH1IsTopEntry ==
    C5_Rendered =>
        /\ out.html.tag = "ol"
        /\ Len(HtmlEntries(out.html)) = 1
        /\ HtmlHrefs(HtmlEntries(out.html)[1]) = {<<"#", "a">>}
        /\ \E i \in DOMAIN HtmlSublists(HtmlEntries(out.html)[1]) :
              \E k \in DOMAIN HtmlEntries(HtmlSublists(HtmlEntries(out.html)[1])[i]) :
                 HtmlHrefs(HtmlEntries(HtmlSublists(HtmlEntries(out.html)[1])[i])[k])
                    = {<<"#", "b">>}

\* C5, amended: for # A, ## B, [[ToC]] the rendered table of contents is an
\* ol with a single top-level entry linking to #b and no sublist; the only
\* H1 of the document has no entry.
C5_SingleH1IsLeftOut ==
    C5_Rendered =>
        /\ out.html.tag = "ol"
        /\ Len(HtmlEntries(out.html)) = 1
        /\ HtmlHrefs(HtmlEntries(out.html)[1]) = {<<"#", "b">>}
        /\ HtmlSublists(HtmlEntries(out.html)[1]) = <<>>
        /\ Len(toc_entries) = 1
        /\ TocHref(1) = <<"#", "b">>

C5_Witness ==
    /\ C5_Rendered
    /\ Len(HtmlEntries(out.html)) = 1
    /\ <<"#", "b">> \in HtmlHrefs(HtmlEntries(out.html)[1])

\* C6 as stated: every heading sits at the depth equal to its computed level.
C6_DepthIsLevel ==
    TocDone => \A e \in DOMAIN toc_entries : TocDepth(e) = TocLevel(headings[e])

\* C6, amended: every heading sits at the smaller of its computed level and
\* its predecessor's depth plus one (depth 1 for the first entry); a heading
\* that skips levels is raised, no intermediate sublist is created.
C6_DepthIsLoweredLevel ==
    TocDone =>
        /\ \A e \in DOMAIN toc_entries :
              TocDepth(e) = Min(TocLevel(headings[e]), IF e = 1 THEN 1 ELSE TocDepth(e - 1) + 1)
        /\ \A l \in DOMAIN toc_lists : toc_lists[l].nodes # <<>> \/ l = 1

C6_Witness ==
    /\ TocDone
    /\ \E e \in DOMAIN toc_entries :
          e > 1 /\ TocDepth(e - 1) = 1 /\ TocLevel(headings[e]) = 3 /\ TocDepth(e) = 2

\* C2: MDDocument.toString returns a string and never throws, whatever the
\* blocks and the reference table of the document.
C2_ToStringNeverThrows == out.op = "toString" => ~out.threw

\* the calls since the last clear()
SinceClear ==
    LET clears == {i \in DOMAIN calls : calls[i].op = "clear"}
        last == IF clears = {} THEN 0 ELSE CHOOSE i \in clears : \A j \in clears : j <= i
    IN SubSeq(calls, last + 1, Len(calls))

\* the ref(name, reference) calls since the last clear()
RefCalls == SelectSeq(SinceClear, LAMBDA c : c.op = "ref")

SameName(n, m) == toLowerCase(n) = toLowerCase(m)

\* the reference of the first ref call since the last clear whose name is n,
\* ignoring case
FirstRegistered(n) ==
    RefCalls[CHOOSE k \in DOMAIN RefCalls :
                /\ SameName(RefCalls[k].name, n)
                /\ \A j \in 1..(k - 1) : ~SameName(RefCalls[j].name, n)].ref

Registered(n) == \E k \in DOMAIN RefCalls : SameName(RefCalls[k].name, n)

\* C7: after any sequence of ref, has_ref and clear calls the reference table
\* holds at most one entry per name compared ignoring case, the first one
\* registered since the last clear; every stored name is lowercase; has_ref(n)
\* is truthy exactly when a ref call with a name equal to n ignoring case
\* happened since the last clear.
C7_ReferenceTable ==
    /\ \A i, j \in DOMAIN references :
          SameName(references[i].name, references[j].name) => i = j
    /\ \A i \in DOMAIN references :
          /\ \A k \in DOMAIN references[i].name : references[i].name[k] \notin UpperLetters
          /\ Registered(references[i].name)
          /\ references[i].ref = FirstRegistered(references[i].name)
    /\ \A n \in RefNames : has_ref(references, n).kind = "object" <=> Registered(n)
    /\ out.op = "has_ref" => (out.result.kind = "object" <=> Registered(out.name))

C7_Witness ==
    /\ Len(RefCalls) = 2
    /\ RefCalls[1].name = <<"A">>
    /\ RefCalls[2].name = <<"a">>
    /\ RefCalls[1].ref # RefCalls[2].ref
    /\ Len(references) = 1
    /\ out.op = "has_ref"
    /\ out.name = <<"A">>
    /\ out.result.kind = "object"

\* block i is a paragraph that starts with a Link or Image with a ref_name
IsRefBlock(i) ==
    /\ blocks[i].type = "paragraph"
    /\ blocks[i].nodes # <<>>
    /\ blocks[i].nodes[1].type \in {"link", "image"}
    /\ blocks[i].nodes[1].ref_name # <<>>

RefNode(i) == blocks[i].nodes[1]

InTable(n) == \E k \in DOMAIN references : references[k].name = n

TableRef(n) == references[CHOOSE k \in DOMAIN references : references[k].name = n].ref

\* what the Link or Image of block i was rendered as
RefElement(i) == out.html.children[i].children[1]

UrlAttr(node) == IF node.type = "image" THEN "src" ELSE "href"

RenderReturned == out.op = "render" /\ ~out.threw /\ Len(out.html.children) = Len(blocks)

\* C8: rendering a Link or Image whose ref_name is not in the reference table
\* does not fail; the link is an <a> without href, the image an <img> without
\* src, and the title nodes (the alt text of the image) are still rendered.
C8_UnresolvedReference ==
    out.op = "render" =>
        /\ RenderReturned
        /\ \A i \in DOMAIN blocks :
              (IsRefBlock(i) /\ ~InTable(RefNode(i).ref_name)) =>
                  /\ RefElement(i).tag = (IF RefNode(i).type = "image" THEN "img" ELSE "a")
                  /\ ~HasAttr(RefElement(i), UrlAttr(RefNode(i)))
                  /\ IF RefNode(i).type = "image"
                     THEN AttrValue(RefElement(i), "alt") = as_plain_text(RefNode(i))
                     ELSE Concat([k \in DOMAIN RefElement(i).children |->
                                    Html(RefElement(i).children[k])])
                            = as_plain_text(RefNode(i))

C8_Witness ==
    /\ RenderReturned
    /\ \E i \in DOMAIN blocks :
          /\ IsRefBlock(i) /\ RefNode(i).type = "link" /\ ~InTable(RefNode(i).ref_name)
          /\ RefElement(i).tag = "a" /\ RefElement(i).children # <<>>
    /\ \E i \in DOMAIN blocks :
          /\ IsRefBlock(i) /\ RefNode(i).type = "image" /\ ~InTable(RefNode(i).ref_name)
          /\ RefElement(i).tag = "img"

\* C9: a Link or Image with ref_name n renders with the url, and the tooltip
\* if it has one, of the reference n of the table at the time of the render,
\* whether ref(n, ...) was called before or after the push of its block.
C9_ResolvedAtRender ==
    (out.op = "render" /\ ~out.threw) =>
        \A i \in DOMAIN blocks :
            (IsRefBlock(i) /\ InTable(RefNode(i).ref_name)) =>
                LET reference == TableRef(RefNode(i).ref_name)
                IN /\ HasAttr(RefElement(i), UrlAttr(RefNode(i)))
                   /\ AttrValue(RefElement(i), UrlAttr(RefNode(i))) = reference.url
                   /\ IF has_tooltip(reference)
                      THEN /\ HasAttr(RefElement(i), "title")
                           /\ AttrValue(RefElement(i), "title") = reference.tooltip
                      ELSE ~HasAttr(RefElement(i), "title")

\* the reference was registered after the push of the block that uses it
C9_Witness ==
    /\ RenderReturned
    /\ \E p, q \in DOMAIN calls :
          /\ p < q
          /\ calls[p].op = "push"
          /\ calls[p].block = Paragraph(<<Link(NoUrl, Title, NoTooltip, <<"A">>)>>)
          /\ calls[q].op = "ref"
          /\ calls[q].name = <<"a">>
          /\ calls[q].ref = Reference(<<"u2">>, <<"tip">>)
    /\ \E i \in DOMAIN blocks :
          /\ IsRefBlock(i)
          /\ HasAttr(RefElement(i), "href")
          /\ AttrValue(RefElement(i), "href") = <<"u2">>
          /\ AttrValue(RefElement(i), "title") = <<"tip">>

\* C3: a container declared "no linebreaks" (Strikethrough, Highlight,
\* Spoiler, Link title, Heading) has no Linebreak among its direct children
\* after any sequence of construction and push operations.
C3_NoLinebreakChild ==
    container.type \in NoLinebreakTypes =>
        \A i \in DOMAIN container.nodes : ~is_linebreak(container.nodes[i])

RECURSIVE Elements(_)
\* the elements of an HTML subtree, the root included
Elements(node) ==
    IF ~IsElement(node) THEN {}
    ELSE {node} \cup UNION {Elements(node.children[i]) : i \in DOMAIN node.children}

\* the elements rendering put below the parent
RenderedElements == UNION {Elements(out.html.children[i]) : i \in DOMAIN out.html.children}

InlineHtmlRendered ==
    /\ out.op = "render"
    /\ ~out.threw
    /\ options.inline_html.enable
    /\ \A i \in DOMAIN blocks : blocks[i].type = "inline_html"

\* C1: with inline_html enabled, the subtree an InlineHTML block renders to
\* has, at any depth, no element with a disallowed tag and no attribute
\* outside the policy of its tag and of "*".
C1_InlineHtmlSanitized ==
    InlineHtmlRendered =>
        \A el \in RenderedElements :
            /\ el.tag \notin options.inline_html.disallowed_tags
            /\ \A k \in DOMAIN el.attributes : AttributeAllowed(el.tag, el.attributes[k].name)

\* the block has an inline node of the type
HasInline(block, type) ==
    block.type = "paragraph" /\ \E k \in DOMAIN block.nodes : block.nodes[k].type = type

\* the callback other than latex.render that rendering the block calls and
\* that throws, or "none"
ThrowingCallback(block) ==
    IF HasInline(block, "emoji") /\ options.emoji = "throws" THEN "emoji"
    ELSE IF HasInline(block, "inline_code") /\ options.code.process = "throws"
    THEN "code.process"
    ELSE IF block.type = "block_code" /\ block.language # ""
                /\ options.block_code.highlighter = "throws"
    THEN "block_code.highlighter"
    ELSE IF block.type = "table" /\ options.table.process = "throws" THEN "table.process"
    ELSE "none"

\* the fallback element of a latex node whose render callback threw
LatexFallback(el, display_mode) ==
    /\ IsElement(el)
    /\ el.tag = (IF display_mode THEN "div" ELSE "span")
    /\ HasAttr(el, "class")
    /\ AttrValue(el, "class") = options.latex.error_classes
    /\ el.children = <<HtmlText(ErrorOf("latex.render"), "NORMAL")>>

C10_WitnessPropagates ==
    /\ out.op = "render"
    /\ out.threw
    /\ out.error = ErrorOf("emoji")
    /\ options.latex.render = "throws"
    /\ blocks = <<Paragraph(<<InlineLatex(<<"x">>, FALSE)>>),
                  Paragraph(<<Emoji(<<"smile">>, "null")>>)>>

\* ------------------------------------------------ inputs: options.parent

\* what a caller may pass as options.parent: nothing, an html.Element, or a
\* value that is not an html.Element (a string, a DOM node, a plain object)
ParentOptions ==
    {[kind |-> "null"],
     [kind |-> "element", element |-> create_element("section")],
     [kind |-> "other"]}

InitParent ==
    /\ blocks \in SeqsUpTo(CallbackBlocks, MaxCallbackBlocks)
    /\ \E parent \in ParentOptions : options = [DEFAULT_OPTIONS EXCEPT !.parent = parent]
    /\ references = <<>>
    /\ calls = <<>>
    /\ container = NoElement
    /\ out = NoOutput
    /\ TocIdle

NextParent == Render

SpecParent == InitParent /\ [][NextParent]_vars

\* C11 as stated: a render whose options.parent is supplied and is not an
\* html.Element fails: it throws and returns no tree.
C11_NonElementParentFails ==
    (out.op = "render" /\ options.parent.kind = "other") => out.threw

\* C11: a render whose options.parent is supplied and is not an html.Element
\* does not fail: it returns what the same render without a parent returns,
\* a fresh div that holds the rendered blocks; a parent that is an
\* html.Element is the element returned.
C11_NonElementParentIgnored ==
    out.op = "render" =>
        /\ options.parent.kind = "other" =>
              /\ ~out.threw
              /\ out.html.tag = "div"
              /\ out = render_to_html(Doc, [options EXCEPT !.parent = [kind |-> "null"]])
        /\ options.parent.kind = "element" =>
              /\ ~out.threw
              /\ out.html.tag = options.parent.element.tag

\* two blocks were rendered with a parent that is not an html.Element
C11_Witness ==
    /\ out.op = "render"
    /\ options.parent.kind = "other"
    /\ Len(blocks) = 2
    /\ ~out.threw
    /\ Len(out.html.children) = 2

\* ------------------------------------------------------ inputs: get_id

MaxIdLen == 3

\* the characters a heading text is made of: letters, a digit, a space, a
\* character encodeURI leaves alone and one it percent-encodes
IdChars == {"a", "B", "1", " ", "!", "é"}

InitId ==
    /\ \E text \in SeqsUpTo(IdChars, MaxIdLen) :
          \E nodes \in {<<Text(text)>>, <<Bold(<<Text(text)>>)>>, <<InlineCode(text)>>} :
              blocks = <<Heading(nodes, "h2")>>
    /\ references = <<>>
    /\ calls = <<>>
    /\ container = NoElement
    /\ options = DEFAULT_OPTIONS
    /\ out = NoOutput
    /\ TocIdle

\* heading.get_id()
GetId ==
    /\ \E i \in DOMAIN blocks :
          /\ blocks[i].type = "heading"
          /\ out' = [op |-> "get_id", heading |-> i, id |-> get_id(blocks[i])]
    /\ UNCHANGED <<docVars, tocVars, options, container>>

NextId == GetId

SpecId == InitId /\ [][NextId]_vars

Digits == {"0", "1", "2", "3", "4", "5", "6", "7", "8", "9"}

HexDigits == Digits \cup {"a", "b", "c", "d", "e", "f"}

RECURSIVE IdAllowed(_)
\* the string is made of lowercase letters, digits, "-" and URL-encoded
\* bytes (a "%" and two hexadecimal digits)
IdAllowed(s) ==
    IF s = <<>> THEN TRUE
    ELSE IF Head(s) = "%"
    THEN Len(s) >= 3 /\ s[2] \in HexDigits /\ s[3] \in HexDigits
            /\ IdAllowed(SubSeq(s, 4, Len(s)))
    ELSE Head(s) \in (LowerLetters \cup Digits \cup {"-"}) /\ IdAllowed(Tail(s))

\* C12: the identifier get_id returns for a heading holds only lowercase
\* letters, digits, "-" and URL-encoded bytes, and a second call on the same
\* heading returns the same string as the first.
C12_IdCharacters ==
    [][out'.op = "get_id" =>
          /\ IdAllowed(out'.id)
          /\ (out.op = "get_id" /\ out.heading = out'.heading) => out'.id = out.id]_vars

\* ------------------------------------------------------- inputs: lists

MaxListEntries == 2

MaxStart == 3

\* a paragraph of one word
Word(w) == Paragraph(<<Text(<<w>>)>>)

\* the list nested in an entry, as a block of the entry or as its sublist
InnerList == List(<<ListEntry(<<Word("n")>>, <<>>, "null")>>, FALSE, 1)

\* entries: plain, checked, unchecked, with a List block or a table of
\* contents between two paragraphs, with a sublist
ListEntryInputs ==
    {ListEntry(<<Word("x")>>, <<>>, "null"),
     ListEntry(<<Word("x")>>, <<>>, "true"),
     ListEntry(<<Word("x")>>, <<>>, "false"),
     ListEntry(<<Word("x"), InnerList, Word("y")>>, <<>>, "null"),
     ListEntry(<<Word("x"), TableOfContents, Word("y")>>, <<>>, "null"),
     ListEntry(<<Word("x")>>, <<InnerList>>, "null")}

ListInputs ==
    {List(entries, ordered, start) :
        entries \in SeqsUpTo(ListEntryInputs, MaxListEntries),
        ordered \in BOOLEAN,
        start \in 1..MaxStart}

\* a document of one list, with or without a heading before it and a
\* paragraph after it
InitList ==
    /\ \E list \in ListInputs :
          \E before \in {<<>>, <<Heading(<<Text(<<"A">>)>>, "h2")>>},
             after \in {<<>>, <<Word("z")>>} :
                blocks = before \o <<list>> \o after
    /\ \E enable \in BOOLEAN, disabled \in BOOLEAN :
          options = [DEFAULT_OPTIONS EXCEPT !.checkbox.enable = enable,
                                            !.checkbox.disabled_property = disabled]
    /\ references = <<>>
    /\ calls = <<>>
    /\ container = NoElement
    /\ out = NoOutput
    /\ TocIdle

NextList == Render \/ DocToString

SpecList == InitList /\ [][NextList]_vars

\* the list of the document, and where it is
ListIndex == CHOOSE i \in DOMAIN blocks : blocks[i].type = "list"

TheList == blocks[ListIndex]

\* the element the list was rendered to: every block before it gave one child
ListElement == out.html.children[ListIndex]

RECURSIVE UntilEmpty(_)
\* the lines before the first empty line
UntilEmpty(lines) ==
    IF lines = <<>> \/ Head(lines) = <<>> THEN <<>>
    ELSE <<Head(lines)>> \o UntilEmpty(Tail(lines))

\* the lines of the list in the serialized document (every block before it
\* is one line and an empty line) that are not indented
ListTopLines ==
    LET lines == Split(out.value, "\n")
        own == UntilEmpty(SubSeq(lines, 2 * (ListIndex - 1) + 1, Len(lines)))
    IN SelectSeq(own, LAMBDA line : Head(line) # " ")

\* C13: serializing an ordered list with ordered_start = k gives one
\* unindented line per entry, the i-th (from 0) starting with the number k+i;
\* rendering a list gives ol or ul with the attribute start = k exactly when
\* the list is ordered and k is not 1.
C13_OrderedStart ==
    /\ (out.op = "toString" /\ ~out.threw /\ TheList.ordered) =>
          /\ Len(ListTopLines) = Len(TheList.nodes)
          /\ \A j \in DOMAIN ListTopLines :
                SubSeq(ListTopLines[j], 1, 3) =
                    <<ToString(TheList.ordered_start + j - 1), ".", " ">>
    /\ (out.op = "render" /\ ~out.threw) =>
          /\ ListElement.tag = (IF TheList.ordered THEN "ol" ELSE "ul")
          /\ HasAttr(ListElement, "start") <=>
                (TheList.ordered /\ TheList.ordered_start # 1)
          /\ HasAttr(ListElement, "start") =>
                AttrValue(ListElement, "start") = TheList.ordered_start

\* an ordered list that starts at 2 was serialized with two entries
C13_Witness ==
    /\ TheList.ordered
    /\ TheList.ordered_start = 2
    /\ Len(TheList.nodes) = 2
    /\ out.op = "toString"
    /\ ~out.threw
    /\ Len(ListTopLines) = 2
    /\ Head(ListTopLines[2]) = "3"

\* an ordered list that starts at 2 was rendered
C13_WitnessRendered ==
    /\ TheList.ordered
    /\ TheList.ordered_start = 2
    /\ out.op = "render"
    /\ HasAttr(ListElement, "start")
    /\ AttrValue(ListElement, "start") = 2

\* -------------------------------------------------- inputs: code blocks

MaxCodeLen == 3

\* a document of one BlockCode with or without a language, rendered with a
\* highlighter that is absent, fills the parent it is given, or throws
InitCode ==
    /\ \E code \in SeqsUpTo({"c", "\n"}, MaxCodeLen), language \in {"", "js"} :
          blocks = <<BlockCode(code, language)>>
    /\ \E highlighter \in {"null", "fills", "throws"}, class_name \in {"block_code", ""} :
          options = [DEFAULT_OPTIONS EXCEPT !.block_code.highlighter = highlighter,
                                            !.block_code.class_name = class_name]
    /\ references = <<>>
    /\ calls = <<>>
    /\ container = NoElement
    /\ out = NoOutput
    /\ TocIdle

NextCode == Render

SpecCode == InitCode /\ [][NextCode]_vars

\* the code element the BlockCode was rendered to, inside pre and, with a
\* class name for code blocks, inside the div around it
CodeElement ==
    LET top == out.html.children[1]
    IN IF top.tag = "div" THEN top.children[1].children[1] ELSE top.children[1]

\* the nodes as purge_empty_children leaves them in the tree returned
Purged(nodes) == purge_empty_children([create_element("div") EXCEPT !.children = nodes]).children

\* C14 as stated: with a highlighter present, the children of the code
\* element of any BlockCode are the highlighter's output.
C14_HighlighterAlways ==
    (out.op = "render" /\ options.block_code.highlighter = "fills") =>
        /\ ~out.threw
        /\ CodeElement.children = Purged(HighlightedNodes(blocks[1].code, blocks[1].language))

\* C14: with a highlighter present, the children of the code element of a
\* BlockCode that has a language are the highlighter's output (an exception
\* of the highlighter leaves the render); a BlockCode without a language is
\* not handed to the highlighter and its code element holds the raw code as
\* one text, as without a highlighter.
C14_HighlighterWithLanguage ==
    out.op = "render" =>
        IF options.block_code.highlighter # "null" /\ blocks[1].language # ""
        THEN IF options.block_code.highlighter = "throws"
             THEN out.threw /\ out.error = ErrorOf("block_code.highlighter")
             ELSE /\ ~out.threw
                  /\ CodeElement.tag = "code"
                  /\ CodeElement.children =
                        Purged(HighlightedNodes(blocks[1].code, blocks[1].language))
        ELSE /\ ~out.threw
             /\ CodeElement.tag = "code"
             /\ CodeElement.children = Purged(<<HtmlText(blocks[1].code, "CODE")>>)

\* a BlockCode with a language was rendered through the highlighter
C14_Witness ==
    /\ out.op = "render"
    /\ ~out.threw
    /\ options.block_code.highlighter = "fills"
    /\ blocks[1].language = "js"
    /\ blocks[1].code # <<>>
    /\ CodeElement.children # <<HtmlText(blocks[1].code, "CODE")>>

\* a BlockCode without a language was rendered with a highlighter present
C14_WitnessNoLanguage ==
    /\ out.op = "render"
    /\ ~out.threw
    /\ options.block_code.highlighter = "fills"
    /\ blocks[1].language = ""
    /\ blocks[1].code # <<>>
    /\ CodeElement.children = <<HtmlText(blocks[1].code, "CODE")>>

\* ------------------------------------------------------- inputs: tables

MaxTableRows == 3

MaxTableCols == 2

AlignmentSet == {TableAlignments[k] : k \in DOMAIN TableAlignments}

\* rows of zero to MaxTableCols cells, the first row being the head (a table
\* built without rows gets an empty head), and alignments for none, some or
\* all of the columns
InitTable ==
    /\ \E rows \in SeqsUpTo({TableRow(cells) :
                                cells \in SeqsUpTo({TableEntry(<<Text(<<"h">>)>>)},
                                                   MaxTableCols)},
                            MaxTableRows),
          alignments \in SeqsUpTo(AlignmentSet, MaxTableCols) :
              blocks = <<Table(rows, alignments)>>
    /\ references = <<>>
    /\ calls = <<>>
    /\ container = NoElement
    /\ options = DEFAULT_OPTIONS
    /\ out = NoOutput
    /\ TocIdle

NextTable == Render

SpecTable == InitTable /\ [][NextTable]_vars

\* the cell is a tag element styled for column i (from 1) of the table: the
\* text-align of alignments[i], no style when that is absent or NONE
CellOfColumn(cell, tag, i) ==
    /\ cell.tag = tag
    /\ IF i \in DOMAIN blocks[1].alignments /\ blocks[1].alignments[i].name # "none"
       THEN /\ HasAttr(cell, "style")
            /\ AttrValue(cell, "style") =
                  <<[key |-> "text-align", value |-> blocks[1].alignments[i].name]>>
       ELSE ~HasAttr(cell, "style")

\* the tr is the row rendered with cells of the tag
RowOfCells(tr, row, tag) ==
    /\ tr.tag = "tr"
    /\ Len(tr.children) = Len(row.nodes)
    /\ \A i \in DOMAIN tr.children : CellOfColumn(tr.children[i], tag, i)

\* C16: a rendered Table is a table of a thead with the head row and a tbody
\* with one tr per row after the head; head cells are th, body cells td, and
\* the cell of column i has the text-align style of alignments[i], or no
\* text-align style when alignments[i] is absent or NONE.
C16_TableAlignment ==
    out.op = "render" =>
        /\ ~out.threw
        /\ LET table == out.html.children[1]
               thead == table.children[1]
               tbody == table.children[2]
           IN /\ table.tag = "table" /\ thead.tag = "thead" /\ tbody.tag = "tbody"
              /\ Len(thead.children) = 1
              /\ RowOfCells(thead.children[1], blocks[1].nodes[1], "th")
              /\ Len(tbody.children) = Len(blocks[1].nodes) - 1
              /\ \A r \in DOMAIN tbody.children :
                    RowOfCells(tbody.children[r], blocks[1].nodes[r + 1], "td")

\* a table of a head and two rows was rendered, its first column without
\* alignment and its second centered, a row having a cell in each
C16_Witness ==
    /\ out.op = "render"
    /\ Len(blocks[1].nodes) = 3
    /\ blocks[1].alignments = <<TableAlignments.NONE, TableAlignments.CENTER>>
    /\ Len(blocks[1].nodes[2].nodes) = 2
    /\ Len(out.html.children[1].children[2].children) = 2
    /\ HasAttr(out.html.children[1].children[2].children[1].children[2], "style")

IsInput(node) == IsElement(node) /\ node.tag = "input"

\* C17: with checkbox.enable, an entry whose checked value is true or false
\* renders as an li whose first child is an input of type checkbox, with the
\* attribute checked exactly when the entry is checked and the attribute
\* disabled exactly when checkbox.disabled_property is set; an entry without
\* a checked value renders as an li without input.
C17_Checkbox ==
    (out.op = "render" /\ ~out.threw /\ options.checkbox.enable) =>
        /\ Len(ListElement.children) = Len(TheList.nodes)
        /\ \A e \in DOMAIN TheList.nodes :
              LET li == ListElement.children[e]
                  entry == TheList.nodes[e]
              IN /\ li.tag = "li"
                 /\ IF entry.checked \in {"true", "false"}
                    THEN /\ li.children # <<>>
                         /\ IsInput(li.children[1])
                         /\ HasAttr(li.children[1], "type")
                         /\ AttrValue(li.children[1], "type") = "checkbox"
                         /\ HasAttr(li.children[1], "checked") <=> entry.checked = "true"
                         /\ HasAttr(li.children[1], "disabled") <=>
                               options.checkbox.disabled_property
                    ELSE \A k \in DOMAIN li.children : ~IsInput(li.children[k])

\* an unchecked entry was rendered with a checkbox that is not disabled, next
\* to an entry without a checked value
C17_Witness ==
    /\ out.op = "render"
    /\ options.checkbox.enable
    /\ ~options.checkbox.disabled_property
    /\ Len(TheList.nodes) = 2
    /\ TheList.nodes[1].checked = "false"
    /\ TheList.nodes[2].checked = "null"
    /\ IsInput(ListElement.children[1].children[1])
    /\ ~HasAttr(ListElement.children[1].children[1], "checked")

IsP(node) == IsElement(node) /\ node.tag = "p"

\* C19: the paragraphs that are direct nodes of a list entry are rendered
\* into its li as bare inline content, none as a p element, also when they
\* come after a List or a table of contents among the nodes of the entry;
\* the paragraph after the list, at the top level, is rendered as a p.
C19_EntryParagraphsBare ==
    (out.op = "render" /\ ~out.threw) =>
        /\ \A e \in DOMAIN ListElement.children :
              \A k \in DOMAIN ListElement.children[e].children :
                  ~IsP(ListElement.children[e].children[k])
        /\ ListIndex < Len(blocks) => IsP(out.html.children[ListIndex + 1])

RECURSIVE PreOrder(_)
\* the entries of the list in pre-order: an entry, then those of its sublists
PreOrder(list) ==
    Concat([k \in DOMAIN list.nodes |->
        <<list.nodes[k]>>
            \o Concat([j \in DOMAIN list.nodes[k].sublists |->
                          PreOrder(list.nodes[k].sublists[j])])])

\* the headings among the blocks of the document that the table of contents
\* includes, in document order, counted on the document itself
IncludedHeadings ==
    SelectSeq([i \in DOMAIN blocks |-> i],
              LAMBDA i : i \in (IF SeveralH1 THEN DocHeadingSet ELSE DocHeadingSet \ DocH1s))

\* C18: a pre-order walk of the list as_list returns visits one entry per
\* included heading of the document, in document order, and the entry of a
\* heading holds one Paragraph that holds one Link to "#" + get_id(heading)
\* whose title is the heading's inline nodes.
C18_OneEntryPerHeading ==
    TocDone =>
        LET walk == PreOrder(TocTree(toc_lists, toc_entries, 1))
        IN /\ Len(walk) = Len(IncludedHeadings)
           /\ \A k \in DOMAIN walk :
                 LET heading == blocks[IncludedHeadings[k]]
                 IN /\ Len(walk[k].nodes) = 1
                    /\ walk[k].nodes[1].type = "paragraph"
                    /\ Len(walk[k].nodes[1].nodes) = 1
                    /\ walk[k].nodes[1].nodes[1].type = "link"
                    /\ walk[k].nodes[1].nodes[1].ref.url = <<"#">> \o get_id(heading)
                    /\ walk[k].nodes[1].nodes[1].nodes = heading.nodes

\* three headings were listed, the second nested under the first and the
\* third back at the top level
C18_Witness ==
    /\ TocDone
    /\ Len(toc_entries) = 3
    /\ Len(toc_lists) = 2
    /\ Len(toc_lists[1].nodes) = 2
    /\ blocks[1].nodes # blocks[2].nodes

\* ------------------------------------------------- inputs: deep headings

MaxDeepHeadings == 4

\* documents of headings only, enough of them for a heading to come back
\* to a level above a chain of three entries
InitCursor ==
    /\ blocks \in SeqsUpTo({Heading(<<Text(<<"A">>)>>, HeadingLevel[n]) :
                                n \in 1..Len(HeadingLevel)},
                           MaxDeepHeadings)
    /\ references = <<>>
    /\ calls = <<>>
    /\ container = NoElement
    /\ options = DEFAULT_OPTIONS
    /\ out = NoOutput
    /\ TocIdle

NextCursor ==
    AsListStart \/ NextHeading \/ LowerLevel \/ PlaceHeading \/ AsListReturn \/ RenderToc

SpecCursor == InitCursor /\ [][NextCursor]_vars

\* C20: in the list as_list builds, the first entry is at the top level
\* whatever the level of its heading; every later entry is at most one deeper
\* than the entry before it and at most as deep as its computed level; and
\* once a heading is placed the cursor array is the list followed by the
\* ancestors of the entry just added, outermost first, and that entry.
C20_CursorIsAncestorChain ==
    toc_entries # <<>> =>
        /\ TocDepth(1) = 1
        /\ \A e \in DOMAIN toc_entries :
              /\ e > 1 => TocDepth(e) <= TocDepth(e - 1) + 1
              /\ TocDepth(e) <= TocLevel(headings[e])
        /\ Len(current) = TocDepth(Len(toc_entries)) + 1
        /\ current[1] = 0
        /\ current[Len(current)] = Len(toc_entries)
        /\ \A d \in 2..Len(current) : TocParent(current[d]) = current[d - 1]

\* a heading was placed at depth 2 after a chain of three entries
C20_Witness ==
    /\ Len(toc_entries) = 4
    /\ TocDepth(3) = 3
    /\ TocDepth(4) = 2
    /\ Len(current) = 3

\* ------------------------------------------- inputs: reference table

MaxFrameBlocks == 2

\* blocks that read the reference table and blocks that call a callback
FrameBlocks ==
    {Paragraph(<<Link(NoUrl, Title, NoTooltip, <<"A">>)>>),
     Paragraph(<<Image(NoUrl, Title, <<"own">>, <<"b">>)>>),
     Paragraph(<<Emoji(<<"smile">>, "null")>>),
     InlineLatex(<<"x">>, TRUE)}

\* reference tables as MDDocument.ref leaves them
FrameReferences ==
    {<<>>,
     ref(<<>>, <<"A">>, Reference(<<"u1">>, NoTooltip)),
     ref(ref(<<>>, <<"A">>, Reference(<<"u1">>, NoTooltip)),
         <<"B">>, Reference(<<"u2">>, <<"tip">>))}

InitFrame ==
    /\ blocks \in SeqsUpTo(FrameBlocks, MaxFrameBlocks)
    /\ references \in FrameReferences
    /\ options \in CallbackOptions
    /\ calls = <<>>
    /\ container = NoElement
    /\ out = NoOutput
    /\ TocIdle

NextFrame == Render

SpecFrame == InitFrame /\ [][NextFrame]_vars

RowPushColumn(row, column) ==
    [row EXCEPT !.nodes = Append(@, TableEntry(<<Text(column)>>))]

RECURSIVE PushData(_, _, _)
\* data.forEach of Table.push_column, lines 812-818, from index on: rows are
\* created until the table has the row index + 1, which gets the cell
PushData(table, data, index) ==
    IF data = <<>> THEN table
    ELSE PushData(
            [table EXCEPT !.nodes =
                LET rows == @ \o [i \in 1..(index + 2 - Len(@)) |-> TableRow(<<>>)]
                IN [rows EXCEPT ![index + 2] = RowPushColumn(@, Head(data))]],
            Tail(data), index + 1)

\* Table.push_column(head, data, alignment); an empty head is falsy
push_column(table, head, data, alignment) ==
    PushData([table EXCEPT !.nodes[1] = IF head # <<>> THEN RowPushColumn(@, head) ELSE @,
                           !.alignments = Append(@, alignment)],
             data, 0)

\* ------------------------------------------------ inputs: push_column

MaxColumns == 2

MaxData == 2

\* a document that holds a fresh Table
InitColumns ==
    /\ blocks = <<Table(<<>>, <<>>)>>
    /\ references = <<>>
    /\ calls = <<>>
    /\ container = NoElement
    /\ options = DEFAULT_OPTIONS
    /\ out = NoOutput
    /\ TocIdle

\* table.push_column(head, data, alignment) on the table of the document;
\* the texts of the k-th call end in k, so that a cell tells its call
PushColumn ==
    /\ Len(calls) < MaxColumns
    /\ blocks # <<>>
    /\ blocks[1].type = "table"
    /\ LET k == ToString(Len(calls) + 1)
       IN \E head \in {<<>>, <<"h", k>>}, rows \in 0..MaxData, alignment \in AlignmentSet :
             /\ blocks' = [blocks EXCEPT ![1] =
                              push_column(@, head, [i \in 1..rows |-> <<"d", k>>], alignment)]
             /\ calls' = Append(calls, [op |-> "push_column", head |-> head, rows |-> rows,
                                        alignment |-> alignment])
    /\ out' = [op |-> "push_column"]
    /\ UNCHANGED <<references, tocVars, options, container>>

NextColumns == PushColumn \/ Render

SpecColumns == InitColumns /\ [][NextColumns]_vars

\* the call that added the cell: the number its text ends in
CallOfCell(cell) == CHOOSE k \in DOMAIN calls : cell.nodes[1].content[2] = ToString(k)

\* C21: after any push_column calls on a fresh Table, the cells the k-th call
\* added, in the head and in the body, are at column index k-1 of their rows,
\* where the alignment of that call is stored, and a render styles each cell
\* with the alignment of the call that added it.
C21_ColumnsAligned ==
    /\ Len(blocks[1].alignments) = Len(calls)
    /\ \A k \in DOMAIN calls : blocks[1].alignments[k] = calls[k].alignment
    /\ \A r \in DOMAIN blocks[1].nodes :
          \A i \in DOMAIN blocks[1].nodes[r].nodes :
              CallOfCell(blocks[1].nodes[r].nodes[i]) = i
    /\ out.op = "render" =>
          LET rows == <<out.html.children[1].children[1].children[1]>>
                          \o out.html.children[1].children[2].children
          IN \A r \in DOMAIN rows :
                \A i \in DOMAIN rows[r].children :
                    LET alignment == calls[CallOfCell(blocks[1].nodes[r].nodes[i])].alignment
                    IN IF alignment.name = "none"
                       THEN ~HasAttr(rows[r].children[i], "style")
                       ELSE /\ HasAttr(rows[r].children[i], "style")
                            /\ AttrValue(rows[r].children[i], "style") =
                                  <<[key |-> "text-align", value |-> alignment.name]>>

\* ------------------------------------------------ inputs: termination

MaxLiveHeadings == 3

InitLive ==
    /\ blocks \in SeqsUpTo({Heading(<<Text(<<"A">>)>>, HeadingLevel[n]) :
                                n \in 1..Len(HeadingLevel)},
                           MaxLiveHeadings)
    /\ references = <<>>
    /\ calls = <<>>
    /\ container = NoElement
    /\ options = DEFAULT_OPTIONS
    /\ out = NoOutput
    /\ TocIdle

NextLive == AsListStart \/ NextHeading \/ LowerLevel \/ PlaceHeading \/ AsListReturn

\* as_list is sequential code: once called, each of its steps is taken
SpecLive ==
    /\ InitLive
    /\ [][NextLive]_vars
    /\ WF_vars(NextHeading)
    /\ WF_vars(LowerLevel)
    /\ WF_vars(PlaceHeading)
    /\ WF_vars(AsListReturn)

\* C22: for a document whose headings have levels h1..h6, in any order, a
\* call of as_list returns: the level the lowering loop works on is never
\* below 1, and the call, once started, reaches its return.
C22_AsListTerminates ==
    /\ [](toc_pc \in {"lower", "place"} => level >= 1)
    /\ (toc_pc = "loop") ~> (toc_pc = "done")

\* as_list returned after lowering a second h6 from level 5 to level 2
C22_Witness ==
    /\ toc_pc = "done"
    /\ Len(blocks) = 2
    /\ blocks[1].level = "h6"
    /\ blocks[2].level = "h6"
    /\ Len(toc_entries) = 2
    /\ level = 2

\* ------------------------------------------------ inputs: heading linebreaks

MaxBreakNodes == 3

\* the inline nodes pushed into a heading and its inline containers
BreakNodes ==
    {LINEBREAK, Text(<<"x">>), Text(<<"<br />">>), Bold(<<>>), Italic(<<>>),
     Strikethrough(<<>>), Link(<<"u0">>, <<>>, NoTooltip, <<>>)}

InlineContainerTypes == {"heading", "bold", "italic", "strikethrough", "link"}

RECURSIVE NodeCount(_)
\* the number of nodes below an element
NodeCount(el) ==
    IF el.type \notin InlineContainerTypes \/ el.nodes = <<>> THEN 0
    ELSE 1 + NodeCount(Head(el.nodes)) + NodeCount([el EXCEPT !.nodes = Tail(@)])

RECURSIVE ContainerPaths(_)
\* the index paths from an element to itself and to the containers below it
ContainerPaths(el) ==
    IF el.type \notin InlineContainerTypes THEN {}
    ELSE {<<>>} \cup UNION {{<<i>> \o path : path \in ContainerPaths(el.nodes[i])} :
                                i \in DOMAIN el.nodes}

RECURSIVE PushAt(_, _, _)
\* descendant.push(node), for the descendant of el at the end of path
PushAt(el, path, node) ==
    IF path = <<>> THEN ElementPush(el, node)
    ELSE [el EXCEPT !.nodes[Head(path)] = PushAt(@, Tail(path), node)]

InitBreak ==
    /\ \E nodes \in SeqsUpTo({LINEBREAK, Bold(<<LINEBREAK>>)}, 1) :
          blocks = <<Heading(nodes, HeadingLevel[2])>>
    /\ \E enable \in BOOLEAN :
          options = [DEFAULT_OPTIONS EXCEPT !.inline_html.enable = enable]
    /\ references = <<>>
    /\ calls = <<>>
    /\ container = NoElement
    /\ out = NoOutput
    /\ TocIdle

\* heading.push(node), or the same on an inline container below the heading
PushBreak ==
    /\ NodeCount(blocks[1]) < MaxBreakNodes
    /\ \E path \in ContainerPaths(blocks[1]), node \in BreakNodes :
          blocks' = <<PushAt(blocks[1], path, node)>>
    /\ out' = [op |-> "push"]
    /\ UNCHANGED <<references, calls, container, tocVars, options>>

NextBreak == PushBreak \/ Render

SpecBreak == InitBreak /\ [][NextBreak]_vars

RECURSIVE HasNode(_, _)
\* node is el or lies below it
HasNode(el, node) ==
    \/ el = node
    \/ /\ el.type \in InlineContainerTypes
       /\ \E i \in DOMAIN el.nodes : HasNode(el.nodes[i], node)

\* the <br> elements inside the rendered heading element
BreakElements == {e \in Elements(out.html.children[1]) : e.tag = "br"}

HeadingRendered == out.op = "render" /\ ~out.threw

C23_WitnessPushed ==
    /\ HeadingRendered
    /\ blocks[1].nodes = <<Text(<<"x">>), LINEBREAK>>
    /\ Len(out.html.children[1].children) = 1

====
